---- MODULE Spec2Model ----
(***************************************************************************)
(* State-machine model of the organix task-tracking API                    *)
(* (src/routes/*.js, src/models/*.js, src/middleware/auth.js).             *)
(*                                                                         *)
(* Every route handler is one action: the stores it reads and writes are   *)
(* the variables, its early returns are the branches of the action, and    *)
(* the answer it sends is recorded in resp.  A Date is an instant counted  *)
(* in slots of the server's local time, SlotsPerDay slots to a calendar    *)
(* day; setHours(0,0,0,0) is StartOfDay and setHours(23,59,59,999) is      *)
(* EndOfDay.  Ids are handed out by counters and are never reused, and a   *)
(* task's createdAt is its id.                                             *)
(***************************************************************************)
EXTENDS Integers, Sequences, FiniteSets, TLC

\* ------------------------------------------------------------------ bounds
MaxTasks == 3          \* tasks ever created in the ordering specification
MaxDateTasks == 2      \* tasks ever created in the date specification
MaxSubtasks == 3       \* subtasks ever created
MaxCompletionTasks == 2   \* tasks ever created in the completion specification
MaxCompletionSubtasks == 2  \* subtasks ever created in the completion specification
MaxDay == 1            \* calendar days are 0 .. MaxDay
SlotsPerDay == 2       \* instants of one calendar day
MaxUsers == 3          \* user records ever created in the account specification
MaxWhitelist == 2      \* whitelist entries ever created
MaxResetCodes == 2      \* reset codes ever stored
MaxRaceTasks == 2       \* static tasks of the owner in the reorder race specification
MaxRaceSubtasks == 1    \* subtasks ever created in the read race specifications
MaxGuardTasks == 1      \* tasks ever created in the guard specification (subtasks: no more than tasks)

\* ------------------------------------------------------------- constants
Null == -1             \* a Date field holding null (Task.js default: null)
SortBase == 1000       \* radix of the two-field sort keys, above every id

Days == 0 .. MaxDay
Instants == 0 .. ((MaxDay + 1) * SlotsPerDay - 1)
Midnight(day) == day * SlotsPerDay
Midnights == {Midnight(d) : d \in Days}

\* date.setHours(0, 0, 0, 0)
StartOfDay(date) == (date \div SlotsPerDay) * SlotsPerDay
\* date.setHours(23, 59, 59, 999)
EndOfDay(date) == StartOfDay(date) + SlotsPerDay - 1

BootstrapEmail == "admin@afterlife.org.in"
adminEmails == {"admin@afterlife.org.in", "xanderash44@gmail.com",
                "ashrith@afterlife.org.in", "dhanush@afterlife.org.in",
                "austinak@afterlife.org.in"}
DemoEmail == "demo@example.com"
DemoPassword == "demo123"
\* the password of every registration body
RegisterPassword == "pw0"

\* The processes that serve a request one store operation at a time, and the
\* locals of a process that serves none.
Procs == {1, 2}

\* The bearer token of a request: the user id it was signed for, whether the
\* signature verifies ("none" when the request has no Authorization header),
\* its issuer, audience and type claims, and whether it has expired.
Token(userId, signature, iss, aud, type, expired) ==
    [userId |-> userId, signature |-> signature, iss |-> iss, aud |-> aud,
     type |-> type, expired |-> expired]

NoToken == Token(0, "none", "", "", "", FALSE)

Idle == [pc |-> "idle", user |-> 0, email |-> "", code |-> 0, token |-> NoToken]

\* the password field as the User model stores it
hashed(password) == <<"hash", password>>

VARIABLES
    users,        \* User store:      id -> [email, isAdmin, password]
    whitelist,    \* Whitelist store: id -> [email, isUsed, usedBy]
    tasks,        \* Task store:      id -> [userId, order, startDate, endDate, completed, subtasks]
    subtasks,     \* Subtask store:   id -> [taskId, completed]
    instances,    \* TaskInstance store: id -> [taskId, userId, date, completed, subtaskInstances]
    resetCodes,   \* ResetCode store: id -> [code, email, isUsed, expired]
    nextId,       \* the next fresh id of each store
    inflight,     \* the requests being served step by step: process -> its locals
    resp          \* the last request and the answer it got

vars == <<users, whitelist, tasks, subtasks, instances, resetCodes, nextId, inflight, resp>>

\* The request that was answered last: op names the route, status is the HTTP
\* status, user the authenticated caller, id the :id of the path, s a string
\* argument (direction, email), a and b integer arguments (the dates of a
\* task body; for a reorder, a is 1 when the handler renumbered the group).
Resp(op, status, user, id, s, a, b) ==
    [op |-> op, status |-> status, user |-> user, id |-> id, s |-> s, a |-> a, b |-> b]

\* ------------------------------------------------------------- helpers
Range(f) == {f[x] : x \in DOMAIN f}

RECURSIVE SortByKey(_, _)
\* The ids of S as the sequence ascending in key (keys are pairwise distinct).
SortByKey(S, key) ==
    IF S = {} THEN <<>>
    ELSE LET m == CHOOSE x \in S : \A y \in S : key[x] <= key[y]
         IN  <<m>> \o SortByKey(S \ {m}, key)

IndexOf(seq, x) ==
    IF \E i \in 1 .. Len(seq) : seq[i] = x
    THEN CHOOSE i \in 1 .. Len(seq) : seq[i] = x
    ELSE 0

SetMax(S) == CHOOSE x \in S : \A y \in S : y <= x

createdAt(id) == id

\* ---------------------------------------------------------- auth guards
\* middleware/auth.js: the token resolves to an existing user record.
auth(u) == u \in DOMAIN users

\* admin.js adminAuth: the resolved user carries the admin flag.
adminAuth(u) == users[u].isAdmin

\* ------------------------------------------------------------ Task model
\* Task.js endDate.validate.validator (this.startDate, value)
endDateValidator(startDate, value) ==
    IF startDate # Null /\ value # Null THEN value >= startDate ELSE TRUE

\* document.save() runs the schema validators on the document in memory
validTask(doc) == endDateValidator(doc.startDate, doc.endDate)

\* the query without its date conditions: every task of the user
findTasksOfUser(T, userId, date) == {t \in DOMAIN T : T[t].userId = userId}

\* Task.findTasksForDate(userId, date): the ids matching the query
findTasksForDateQuery(T, userId, date) ==
    {t \in DOMAIN T :
        /\ T[t].userId = userId
        /\ T[t].startDate # Null /\ T[t].startDate <= EndOfDay(date)
        /\ T[t].endDate # Null /\ T[t].endDate >= StartOfDay(date)}

\* the static-task query of tasks.js and admin.js
staticTasksQuery(T, userId) ==
    {t \in DOMAIN T :
        /\ T[t].userId = userId
        /\ (T[t].startDate = Null \/ T[t].endDate = Null)}

\* .sort({ order: 1, createdAt: -1 })
dbSort(T, S) ==
    SortByKey(S, [t \in S |-> T[t].order * SortBase - createdAt(t)])

findTasksForDate(T, userId, date) == dbSort(T, findTasksForDateQuery(T, userId, date))

\* Math.max(...existingTasks.map(t => t.order || 0)) + 1, or 1 for no task
nextOrder(T, existing) ==
    IF existing = {} THEN 1
    ELSE SetMax({T[t].order : t \in existing}) + 1

\* the date checks shared by POST /tasks and POST /admin/create-task:
\* 0 when the request passes, else the status it is answered with
createDateCheck(startDate, endDate) ==
    IF startDate # Null /\ endDate # Null /\ StartOfDay(endDate) < StartOfDay(startDate)
    THEN 400
    ELSE IF (startDate # Null /\ endDate = Null) \/ (startDate = Null /\ endDate # Null)
    THEN 400
    ELSE 0

\* the steps both creation routes share after their date checks
createTaskFor(op, caller, userId, startDate, endDate) ==
    LET existing == IF startDate # Null /\ endDate # Null
                    THEN findTasksForDateQuery(tasks, userId, startDate)
                    ELSE staticTasksQuery(tasks, userId)
        doc == [userId |-> userId, order |-> nextOrder(tasks, existing),
                startDate |-> startDate, endDate |-> endDate,
                completed |-> FALSE, subtasks |-> <<>>]
        id == nextId.task
    IN  IF createDateCheck(startDate, endDate) # 0
        THEN /\ resp' = Resp(op, createDateCheck(startDate, endDate), caller, 0, "", startDate, endDate)
             /\ UNCHANGED <<tasks, nextId>>
        ELSE IF ~validTask(doc)
        THEN \* task.save() throws the ValidationError; the catch answers 500
             /\ resp' = Resp(op, 500, caller, 0, "", startDate, endDate)
             /\ UNCHANGED <<tasks, nextId>>
        ELSE /\ tasks' = (id :> doc) @@ tasks
             /\ nextId' = [nextId EXCEPT !.task = @ + 1]
             /\ resp' = Resp(op, 201, caller, id, "", startDate, endDate)

\* POST /api/tasks
CreateTask(u, startDate, endDate) ==
    /\ auth(u)
    /\ createTaskFor("POST /tasks", u, u, startDate, endDate)
    /\ UNCHANGED <<users, whitelist, subtasks, instances, resetCodes, inflight>>

\* POST /api/admin/create-task
AdminCreateTask(u, userId, startDate, endDate) ==
    /\ auth(u) /\ adminAuth(u)
    /\ IF userId \notin DOMAIN users
       THEN /\ resp' = Resp("POST /admin/create-task", 404, u, 0, "", startDate, endDate)
            /\ UNCHANGED <<tasks, nextId>>
       ELSE createTaskFor("POST /admin/create-task", u, userId, startDate, endDate)
    /\ UNCHANGED <<users, whitelist, subtasks, instances, resetCodes, inflight>>

\* ------------------------------------------------------- PUT /api/tasks/:id
\* req.body of PUT /tasks/:id: has is the set of the fields the body carries
Updates(has, startDate, endDate, completed, order, userId) ==
    [has |-> has, startDate |-> startDate, endDate |-> endDate,
     completed |-> completed, order |-> order, userId |-> userId]

NoUpdates == Updates({}, Null, Null, FALSE, 0, 0)

\* "updates.startDate ? new Date(updates.startDate) : task.startDate", after
\* setHours(0, 0, 0, 0) (Null stays Null: the call is guarded)
normalizedDate(given, value, stored) ==
    IF given THEN StartOfDay(value)
    ELSE IF stored # Null THEN StartOfDay(stored) ELSE Null

\* "if (updates.startDate || updates.endDate) {...}": TRUE when the request is
\* answered 400 for its date range
updateRangeError(task, updates) ==
    LET startDate == normalizedDate("startDate" \in updates.has, updates.startDate, task.startDate)
        endDate == normalizedDate("endDate" \in updates.has, updates.endDate, task.endDate)
    IN  /\ ("startDate" \in updates.has \/ "endDate" \in updates.has)
        /\ endDate # Null /\ startDate # Null /\ endDate < startDate

\* Object.assign(task, updates): the fields of the body overwrite the task's
assignUpdates(task, updates) ==
    [task EXCEPT
        !.startDate = IF "startDate" \in updates.has THEN updates.startDate ELSE @,
        !.endDate   = IF "endDate" \in updates.has THEN updates.endDate ELSE @,
        !.completed = IF "completed" \in updates.has THEN updates.completed ELSE @,
        !.order     = IF "order" \in updates.has THEN updates.order ELSE @,
        !.userId    = IF "userId" \in updates.has THEN updates.userId ELSE @]

\* The document task.save() validates: the date check above called setHours on
\* the task's own Date objects when the body did not replace them, so a date
\* the body leaves alone is at its start of day in memory (and only there:
\* an in-place change of a Date is not a modified path and is not written).
documentInMemory(task, updates) ==
    LET touched == "startDate" \in updates.has \/ "endDate" \in updates.has
        local == [task EXCEPT
                    !.startDate = IF touched /\ @ # Null THEN StartOfDay(@) ELSE @,
                    !.endDate   = IF touched /\ @ # Null THEN StartOfDay(@) ELSE @]
    IN  assignUpdates(local, updates)

\* an update of every subtask of the store
subtasksUpdateAll(S, taskId, completed) ==
    [s \in DOMAIN S |-> [S[s] EXCEPT !.completed = completed]]

\* Subtask.updateMany({ taskId: id }, { completed })
subtasksUpdateMany(S, taskId, completed) ==
    [s \in DOMAIN S |-> IF S[s].taskId = taskId THEN [S[s] EXCEPT !.completed = completed] ELSE S[s]]

\* PUT /api/tasks/:id
UpdateTask(u, id, updates) ==
    /\ auth(u)
    /\ LET a == IF "startDate" \in updates.has THEN updates.startDate ELSE Null
           b == IF "endDate" \in updates.has THEN updates.endDate ELSE Null
           c == IF "completed" \notin updates.has THEN ""
                ELSE IF updates.completed THEN "true" ELSE "false"
       IN
       IF id \notin DOMAIN tasks \/ tasks[id].userId # u
       THEN /\ resp' = Resp("PUT /tasks/:id", 404, u, id, c, a, b)
            /\ UNCHANGED <<tasks, subtasks>>
       ELSE IF updateRangeError(tasks[id], updates)
       THEN /\ resp' = Resp("PUT /tasks/:id", 400, u, id, c, a, b)
            /\ UNCHANGED <<tasks, subtasks>>
       ELSE /\ subtasks' = IF "completed" \in updates.has
                           THEN subtasksUpdateMany(subtasks, id, updates.completed)
                           ELSE subtasks
            /\ IF validTask(documentInMemory(tasks[id], updates))
               THEN /\ tasks' = [tasks EXCEPT ![id] = assignUpdates(@, updates)]
                    /\ resp' = Resp("PUT /tasks/:id", 200, u, id, c, a, b)
               ELSE /\ UNCHANGED tasks
                    /\ resp' = Resp("PUT /tasks/:id", 500, u, id, c, a, b)
    /\ UNCHANGED <<users, whitelist, instances, nextId, resetCodes, inflight>>

\* ------------------------------------------------- PUT /api/tasks/:id/order
\* a test that never asks for the renumbering
hasProperOrdersAlways(T, allTasks) == TRUE

\* allTasks.every(t => t.order > 0) && new Set(orders).size === allTasks.length
hasProperOrders(T, allTasks) ==
    /\ \A i \in 1 .. Len(allTasks) : T[allTasks[i]].order > 0
    /\ Cardinality({T[allTasks[i]].order : i \in 1 .. Len(allTasks)}) = Len(allTasks)

\* allTasks.sort by (order || 0) ascending, then createdAt ascending
repairSort(T, S) ==
    SortByKey(S, [t \in S |-> T[t].order * SortBase + createdAt(t)])

RECURSIVE initializeOrders(_, _, _)
\* "allTasks[i].order = i + 1; await allTasks[i].save()" from position i on
\* (positions count from 1 here): the store afterwards, and whether every
\* save passed its validation; the first save that throws ends the loop
initializeOrders(T, sorted, i) ==
    IF i > Len(sorted) THEN [ok |-> TRUE, tasks |-> T]
    ELSE IF ~validTask(T[sorted[i]]) THEN [ok |-> FALSE, tasks |-> T]
    ELSE initializeOrders([T EXCEPT ![sorted[i]].order = i], sorted, i + 1)

\* allTasks.sort((a, b) => a.order - b.order)
orderSort(T, S) == SortByKey(S, [t \in S |-> T[t].order])

\* a target position that wraps around at both ends of the list
targetIndexWrapping(direction, currentIndex, length) ==
    IF direction = "up" THEN (IF currentIndex > 1 THEN currentIndex - 1 ELSE length)
    ELSE (IF currentIndex < length THEN currentIndex + 1 ELSE 1)

\* "Calculate target position", positions counted from 1; 0: cannot move
targetIndex(direction, currentIndex, length) ==
    IF direction = "up" /\ currentIndex > 1 THEN currentIndex - 1
    ELSE IF direction = "down" /\ currentIndex < length THEN currentIndex + 1
    ELSE 0

\* a swap that writes the moved task and forgets its neighbour
swapOrdersOneSided(T, currentTask, targetTask) ==
    [T EXCEPT ![currentTask].order = T[targetTask].order]

\* the swap and "Promise.all([currentTask.save(), targetTask.save()])": each
\* document is written when it passes its validation
swapOrders(T, currentTask, targetTask) ==
    [t \in DOMAIN T |->
        IF t = currentTask /\ validTask(T[t]) THEN [T[t] EXCEPT !.order = T[targetTask].order]
        ELSE IF t = targetTask /\ validTask(T[t]) THEN [T[t] EXCEPT !.order = T[currentTask].order]
        ELSE T[t]]

\* the sibling group of a task: the tasks of the reorder request's allTasks
siblingGroup(T, u, id) ==
    IF T[id].startDate # Null /\ T[id].endDate # Null
    THEN findTasksForDate(T, u, T[id].startDate)
    ELSE dbSort(T, staticTasksQuery(T, u))

\* PUT /api/tasks/:id/order
ReorderTask(u, id, direction) ==
    /\ auth(u)
    /\ IF id \notin DOMAIN tasks \/ tasks[id].userId # u
       THEN /\ resp' = Resp("PUT /tasks/:id/order", 404, u, id, direction, 0, 0)
            /\ UNCHANGED tasks
       ELSE LET allTasks == siblingGroup(tasks, u, id) IN
       IF Len(allTasks) <= 1
       THEN /\ resp' = Resp("PUT /tasks/:id/order", 400, u, id, direction, 0, 0)
            /\ UNCHANGED tasks
       ELSE LET init == IF hasProperOrders(tasks, allTasks)
                        THEN [ok |-> TRUE, tasks |-> tasks]
                        ELSE initializeOrders(tasks, repairSort(tasks, Range(allTasks)), 1)
                sorted == orderSort(init.tasks, Range(allTasks))
                currentIndex == IndexOf(sorted, id)
                target == targetIndex(direction, currentIndex, Len(sorted))
                \* 1 when "Initializing task orders..." was logged, else 0
                initialized == IF hasProperOrders(tasks, allTasks) THEN 0 ELSE 1
            IN
            IF ~init.ok
            THEN /\ tasks' = init.tasks
                 /\ resp' = Resp("PUT /tasks/:id/order", 500, u, id, direction, initialized, 0)
            ELSE IF currentIndex = 0
            THEN /\ tasks' = init.tasks
                 /\ resp' = Resp("PUT /tasks/:id/order", 404, u, id, direction, initialized, 0)
            ELSE IF target = 0
            THEN /\ tasks' = init.tasks
                 /\ resp' = Resp("PUT /tasks/:id/order", 400, u, id, direction, initialized, 0)
            ELSE /\ tasks' = swapOrders(init.tasks, sorted[currentIndex], sorted[target])
                 /\ resp' = Resp("PUT /tasks/:id/order",
                                 IF validTask(tasks[sorted[currentIndex]]) /\ validTask(tasks[sorted[target]])
                                 THEN 200 ELSE 500,
                                 u, id, direction, initialized, 0)
    /\ UNCHANGED <<users, whitelist, subtasks, instances, nextId, resetCodes, inflight>>

\* --------------------------------------- POST /api/tasks/:taskId/subtasks
\* a subtask creation that leaves the instances to the next read
pushNothing(I, taskId, userId, subtaskId) == I

\* "instance.subtaskInstances.push({ subtaskId, completed: false })" on every
\* instance of TaskInstance.find({ taskId, userId })
pushSubtaskInstance(I, taskId, userId, subtaskId) ==
    [i \in DOMAIN I |->
        IF I[i].taskId = taskId /\ I[i].userId = userId
        THEN [I[i] EXCEPT !.subtaskInstances =
                 Append(@, [subtaskId |-> subtaskId, completed |-> FALSE])]
        ELSE I[i]]

\* POST /api/tasks/:taskId/subtasks
CreateSubtask(u, taskId) ==
    /\ auth(u)
    /\ LET id == nextId.subtask IN
       IF taskId \notin DOMAIN tasks \/ tasks[taskId].userId # u
       THEN /\ resp' = Resp("POST /tasks/:taskId/subtasks", 404, u, taskId, "", 0, 0)
            /\ UNCHANGED <<tasks, subtasks, instances, nextId>>
       ELSE /\ subtasks' = (id :> [taskId |-> taskId, completed |-> FALSE]) @@ subtasks
            /\ nextId' = [nextId EXCEPT !.subtask = @ + 1]
            /\ IF ~validTask(tasks[taskId])
               THEN \* task.save() throws after the subtask was saved
                    /\ resp' = Resp("POST /tasks/:taskId/subtasks", 500, u, taskId, "", id, 0)
                    /\ UNCHANGED <<tasks, instances>>
               ELSE /\ tasks' = [tasks EXCEPT ![taskId].subtasks = Append(@, id)]
                    /\ instances' = pushSubtaskInstance(instances, taskId, u, id)
                    /\ resp' = Resp("POST /tasks/:taskId/subtasks", 201, u, taskId, "", id, 0)
    /\ UNCHANGED <<users, whitelist, resetCodes, inflight>>

\* ------------------------------------------------ DELETE /api/subtasks/:id
\* { $pull: { subtasks: id } }
pullSubtask(list, id) == SelectSeq(list, LAMBDA x : x # id)

\* "instance.subtaskInstances.filter(si => si.subtaskId.toString() !== id)" on
\* every instance of TaskInstance.find({ taskId, userId })
removeSubtaskInstance(I, taskId, userId, subtaskId) ==
    [i \in DOMAIN I |->
        IF I[i].taskId = taskId /\ I[i].userId = userId
        THEN [I[i] EXCEPT !.subtaskInstances =
                 SelectSeq(@, LAMBDA si : si.subtaskId # subtaskId)]
        ELSE I[i]]

\* the store without the document id
deleteById(store, id) == [x \in DOMAIN store \ {id} |-> store[x]]

\* DELETE /api/subtasks/:id
DeleteSubtask(u, id) ==
    /\ auth(u)
    /\ IF id \notin DOMAIN subtasks
       THEN /\ resp' = Resp("DELETE /subtasks/:id", 404, u, id, "", 0, 0)
            /\ UNCHANGED <<tasks, subtasks, instances>>
       ELSE IF subtasks[id].taskId \notin DOMAIN tasks
       THEN \* populate('taskId') left null: reading its userId throws
            /\ resp' = Resp("DELETE /subtasks/:id", 500, u, id, "", 0, 0)
            /\ UNCHANGED <<tasks, subtasks, instances>>
       ELSE IF tasks[subtasks[id].taskId].userId # u
       THEN /\ resp' = Resp("DELETE /subtasks/:id", 403, u, id, "", 0, 0)
            /\ UNCHANGED <<tasks, subtasks, instances>>
       ELSE LET taskId == subtasks[id].taskId IN
            /\ tasks' = [tasks EXCEPT ![taskId].subtasks = pullSubtask(@, id)]
            /\ instances' = removeSubtaskInstance(instances, taskId, u, id)
            /\ subtasks' = deleteById(subtasks, id)
            /\ resp' = Resp("DELETE /subtasks/:id", 200, u, id, "", taskId, 0)
    /\ UNCHANGED <<users, whitelist, nextId, resetCodes, inflight>>

\* ------------------------------------------ GET /api/task-instances/date/:date
\* Task.findById(taskId).populate('subtasks'): the subtask ids of the task
\* whose documents exist, in the order of the task's list
populatedSubtasks(T, S, taskId) == SelectSeq(T[taskId].subtasks, LAMBDA x : x \in DOMAIN S)

\* TaskInstance.findOne({ taskId, userId, date }): the ids that match
findInstances(I, taskId, userId, date) ==
    {i \in DOMAIN I : I[i].taskId = taskId /\ I[i].userId = userId /\ I[i].date = date}

\* "Create new instance with all current subtasks"
newInstance(taskId, userId, date, current) ==
    [taskId |-> taskId, userId |-> userId, date |-> date, completed |-> FALSE,
     subtaskInstances |-> [k \in 1 .. Len(current) |->
                              [subtaskId |-> current[k], completed |-> FALSE]]]

\* the synchronisation without the removal of obsolete entries
syncSubtaskInstancesKeepAll(entries, current) ==
    LET instanceSubtaskIds == {entries[k].subtaskId : k \in 1 .. Len(entries)}
        missing == SelectSeq(current, LAMBDA x : x \notin instanceSubtaskIds)
    IN  entries \o [k \in 1 .. Len(missing) |->
                       [subtaskId |-> missing[k], completed |-> FALSE]]

\* "Sync existing instance with current subtasks": the entries of the instance
\* after the missing ones were pushed and the obsolete ones filtered out
syncSubtaskInstances(entries, current) ==
    LET instanceSubtaskIds == {entries[k].subtaskId : k \in 1 .. Len(entries)}
        missing == SelectSeq(current, LAMBDA x : x \notin instanceSubtaskIds)
        pushed == entries \o [k \in 1 .. Len(missing) |->
                                 [subtaskId |-> missing[k], completed |-> FALSE]]
    IN  SelectSeq(pushed, LAMBDA si : si.subtaskId \in Range(current))

\* getOrCreateTaskInstance(taskId, userId, date) on the stores st =
\* [instances, next]: the stores afterwards
getOrCreateTaskInstance(st, T, S, taskId, userId, date) ==
    LET found == findInstances(st.instances, taskId, userId, StartOfDay(date))
        current == populatedSubtasks(T, S, taskId)
    IN  IF found = {}
        THEN [instances |-> (st.next :> newInstance(taskId, userId, StartOfDay(date), current))
                               @@ st.instances,
              next |-> st.next + 1]
        ELSE LET i == CHOOSE x \in found : \A y \in found : x <= y IN
             [instances |-> [st.instances EXCEPT ![i].subtaskInstances =
                                syncSubtaskInstances(@, current)],
              next |-> st.next]

RECURSIVE instancesForTasks(_, _, _, _, _, _, _)
\* "for (const task of activeTasks)" from position k on
instancesForTasks(st, T, S, activeTasks, k, userId, date) ==
    IF k > Len(activeTasks) THEN st
    ELSE instancesForTasks(getOrCreateTaskInstance(st, T, S, activeTasks[k], userId, date),
                           T, S, activeTasks, k + 1, userId, date)

\* GET /api/task-instances/date/:date
GetTaskInstances(u, day) ==
    /\ auth(u)
    /\ LET targetDate == Midnight(day)
           activeTasks == findTasksForDate(tasks, u, targetDate)
           st == instancesForTasks([instances |-> instances, next |-> nextId.instance],
                                   tasks, subtasks, activeTasks, 1, u, targetDate)
       IN  /\ instances' = st.instances
           /\ nextId' = [nextId EXCEPT !.instance = st.next]
           /\ resp' = Resp("GET /task-instances/date/:date", 200, u, 0, "", day, 0)
    /\ UNCHANGED <<users, whitelist, tasks, subtasks, resetCodes, inflight>>

\* ---------------------------------------- PUT /api/task-instances/:id/complete
\* a toggle that inverts the flag of the instance and leaves its entries alone
toggleInstanceFlagOnly(instance) == [instance EXCEPT !.completed = ~@]

\* "instance.completed = !instance.completed" and the forEach over its entries
toggleInstance(instance) ==
    [instance EXCEPT
        !.completed = ~@,
        !.subtaskInstances = [k \in 1 .. Len(@) |-> [@[k] EXCEPT !.completed = ~instance.completed]]]

\* a toggle that also writes the completed flag of the persistent task
ToggleInstanceAndTask(u, id) ==
    /\ auth(u)
    /\ IF id \notin DOMAIN instances \/ instances[id].userId # u
       THEN /\ resp' = Resp("PUT /task-instances/:id/complete", 404, u, id, "", 0, 0)
            /\ UNCHANGED <<instances, tasks>>
       ELSE /\ instances' = [instances EXCEPT ![id] = toggleInstance(@)]
            /\ tasks' = [t \in DOMAIN tasks |->
                            IF t = instances[id].taskId
                            THEN [tasks[t] EXCEPT !.completed = toggleInstance(instances[id]).completed]
                            ELSE tasks[t]]
            /\ resp' = Resp("PUT /task-instances/:id/complete", 200, u, id, "", 0, 0)
    /\ UNCHANGED <<users, whitelist, subtasks, nextId, resetCodes, inflight>>

\* PUT /api/task-instances/:id/complete
ToggleInstance(u, id) ==
    /\ auth(u)
    /\ IF id \notin DOMAIN instances \/ instances[id].userId # u
       THEN /\ resp' = Resp("PUT /task-instances/:id/complete", 404, u, id, "", 0, 0)
            /\ UNCHANGED instances
       ELSE /\ instances' = [instances EXCEPT ![id] = toggleInstance(@)]
            /\ resp' = Resp("PUT /task-instances/:id/complete", 200, u, id, "", 0, 0)
    /\ UNCHANGED <<users, whitelist, tasks, subtasks, nextId, resetCodes, inflight>>

\* ------------------------- PUT /api/task-instances/:id/subtask/:subtaskId
\* "instance.subtaskInstances.find(si => ...)": its position, 0 for none
findSubtaskInstance(instance, subtaskId) ==
    LET hits == {k \in 1 .. Len(instance.subtaskInstances) :
                    instance.subtaskInstances[k].subtaskId = subtaskId}
    IN  IF hits = {} THEN 0 ELSE CHOOSE k \in hits : \A j \in hits : k <= j

\* a re-evaluation that completes the instance and never un-completes it
reevaluateCompleteOnly(instance) ==
    IF \A k \in 1 .. Len(instance.subtaskInstances) : instance.subtaskInstances[k].completed
    THEN [instance EXCEPT !.completed = TRUE]
    ELSE instance

\* "Check if all subtasks are completed to auto-complete the main task"
reevaluate(instance) ==
    LET entries == instance.subtaskInstances
        allSubtasksCompleted == \A k \in 1 .. Len(entries) : entries[k].completed
        anySubtaskIncomplete == \E k \in 1 .. Len(entries) : ~entries[k].completed
    IN  IF allSubtasksCompleted /\ Len(entries) > 0
        THEN [instance EXCEPT !.completed = TRUE]
        ELSE IF anySubtaskIncomplete /\ instance.completed
        THEN [instance EXCEPT !.completed = FALSE]
        ELSE instance

\* PUT /api/task-instances/:id/subtask/:subtaskId
ToggleSubtaskInstance(u, id, subtaskId) ==
    /\ auth(u)
    /\ IF id \notin DOMAIN instances \/ instances[id].userId # u
       THEN /\ resp' = Resp("PUT /task-instances/:id/subtask/:subtaskId", 404, u, id, "", subtaskId, 0)
            /\ UNCHANGED instances
       ELSE LET k == findSubtaskInstance(instances[id], subtaskId) IN
            IF k = 0
            THEN /\ resp' = Resp("PUT /task-instances/:id/subtask/:subtaskId", 404, u, id, "", subtaskId, 0)
                 /\ UNCHANGED instances
            ELSE /\ instances' = [instances EXCEPT ![id] =
                        reevaluate([@ EXCEPT !.subtaskInstances[k].completed = ~@])]
                 /\ resp' = Resp("PUT /task-instances/:id/subtask/:subtaskId", 200, u, id, "", subtaskId, 0)
    /\ UNCHANGED <<users, whitelist, tasks, subtasks, nextId, resetCodes, inflight>>

\* ----------------------------------------------------- PUT /api/subtasks/:id
\* The values of the body field completed that body('completed').isBoolean()
\* lets through, as JSON text: the booleans and the strings "true", "false".
JsonBooleans == {"true", "false", "\"true\"", "\"false\""}

\* the value as a JavaScript condition: of these only the boolean false is falsy
truthy(v) == v # "false"

\* the value as Mongoose casts it for a Boolean path
castBoolean(v) == v \in {"true", "\"true\""}

\* allSubtasksCompleted / anySubtaskIncomplete over task.subtasks: the edited
\* subtask counts with updates.completed, the others with their stored flag
parentCheck(S, list, id, completed) ==
    [all |-> \A k \in 1 .. Len(list) :
                IF list[k] = id THEN truthy(completed) ELSE S[list[k]].completed,
     any |-> \E k \in 1 .. Len(list) :
                IF list[k] = id THEN ~truthy(completed) ELSE ~S[list[k]].completed]

\* PUT /api/subtasks/:id with a body that carries completed
UpdateSubtask(u, id, completed) ==
    /\ auth(u)
    /\ IF id \notin DOMAIN subtasks
       THEN /\ resp' = Resp("PUT /subtasks/:id", 404, u, id, completed, 0, 0)
            /\ UNCHANGED <<tasks, subtasks>>
       ELSE IF subtasks[id].taskId \notin DOMAIN tasks
       THEN \* populate('taskId') left null: reading its userId throws
            /\ resp' = Resp("PUT /subtasks/:id", 500, u, id, completed, 0, 0)
            /\ UNCHANGED <<tasks, subtasks>>
       ELSE IF tasks[subtasks[id].taskId].userId # u
       THEN /\ resp' = Resp("PUT /subtasks/:id", 403, u, id, completed, 0, 0)
            /\ UNCHANGED <<tasks, subtasks>>
       ELSE LET taskId == subtasks[id].taskId
                saved == [subtasks EXCEPT ![id].completed = castBoolean(completed)]
                list == populatedSubtasks(tasks, saved, taskId)
                check == parentCheck(saved, list, id, completed)
                writes == Len(list) > 0 /\ (check.all \/ (check.any /\ tasks[taskId].completed))
            IN  /\ subtasks' = saved
                /\ IF writes /\ ~validTask(tasks[taskId])
                   THEN \* task.save() throws after the subtask was saved
                        /\ resp' = Resp("PUT /subtasks/:id", 500, u, id, completed, taskId, 0)
                        /\ UNCHANGED tasks
                   ELSE /\ tasks' = IF writes
                                    THEN [tasks EXCEPT ![taskId].completed = check.all]
                                    ELSE tasks
                        /\ resp' = Resp("PUT /subtasks/:id", 200, u, id, completed, taskId, 0)
    /\ UNCHANGED <<users, whitelist, instances, nextId, resetCodes, inflight>>

\* ------------------------------------------------------------ initial state
NoResp == Resp("", 0, 0, 0, "", 0, 0)

\* The stores once the bootstrap administrator (user 3) has whitelisted two
\* addresses and their owners (users 1 and 2) have registered.
Accounts ==
    (1 :> [email |-> "x@y.com", isAdmin |-> FALSE, password |-> hashed(RegisterPassword)]) @@
    (2 :> [email |-> "z@y.com", isAdmin |-> FALSE, password |-> hashed(RegisterPassword)]) @@
    (3 :> [email |-> BootstrapEmail, isAdmin |-> TRUE, password |-> hashed(RegisterPassword)])

AccountsWhitelist ==
    (1 :> [email |-> "x@y.com", isUsed |-> TRUE, usedBy |-> 1]) @@
    (2 :> [email |-> "z@y.com", isUsed |-> TRUE, usedBy |-> 2])

FirstIds ==
    [user |-> 4, whitelist |-> 3, task |-> 1, subtask |-> 1, instance |-> 1, resetCode |-> 1]

Init ==
    /\ users = Accounts
    /\ whitelist = AccountsWhitelist
    /\ tasks = << >>
    /\ subtasks = << >>
    /\ instances = << >>
    /\ resetCodes = << >>
    /\ inflight = [p \in Procs |-> Idle]
    /\ nextId = FirstIds
    /\ resp = NoResp

\* ------------------------------------------- the ordering specification
\* One owner (user 1) creates static tasks and tasks over two overlapping date
\* ranges, overwrites an order field through PUT /tasks/:id, and reorders.
OrderRanges ==
    {<<Null, Null>>, <<Midnight(0), Midnight(1)>>, <<Midnight(1), Midnight(1)>>}

OrderUpdates == {Updates({"order"}, Null, Null, FALSE, 0, 0)}

Next ==
    \/ \E r \in OrderRanges :
          nextId.task <= MaxTasks /\ CreateTask(1, r[1], r[2])
    \/ \E id \in 1 .. MaxTasks, upd \in OrderUpdates : UpdateTask(1, id, upd)
    \/ \E id \in 1 .. MaxTasks, dir \in {"up", "down"} : ReorderTask(1, id, dir)

Spec == Init /\ [][Next]_vars

\* ----------------------------------------------- the date specification
\* The owner and the administrator create tasks with any pair of instants (or
\* none) as dates, and the owner edits the dates of a task, one or both.
InstantOrNull == Instants \cup {Null}

DateUpdates ==
    {Updates({"startDate"}, d, Null, FALSE, 0, 0) : d \in Instants}
    \cup {Updates({"endDate"}, Null, d, FALSE, 0, 0) : d \in Instants}
    \cup {Updates({"startDate", "endDate"}, d, e, FALSE, 0, 0) : d \in Instants, e \in Instants}

NextDates ==
    \/ \E s \in InstantOrNull, e \in InstantOrNull :
          nextId.task <= MaxDateTasks /\ CreateTask(1, s, e)
    \/ \E s \in InstantOrNull, e \in InstantOrNull :
          nextId.task <= MaxDateTasks /\ AdminCreateTask(3, 1, s, e)
    \/ \E id \in 1 .. MaxDateTasks, upd \in DateUpdates : UpdateTask(1, id, upd)

SpecDates == Init /\ [][NextDates]_vars

\* -------------------------------------------- the instance specification
\* User 1 has created one task that runs from day 0 to the last day, adds and
\* deletes subtasks, reads the first two days and toggles instances and their
\* entries.
InstUsers == {1, 2}
ReadDays == {0, 1}

InitInst ==
    /\ users = Accounts
    /\ whitelist = AccountsWhitelist
    /\ tasks = (1 :> [userId |-> 1, order |-> 1, startDate |-> Midnight(0),
                      endDate |-> Midnight(MaxDay), completed |-> FALSE,
                      subtasks |-> <<>>])
    /\ subtasks = << >>
    /\ instances = << >>
    /\ resetCodes = << >>
    /\ inflight = [p \in Procs |-> Idle]
    /\ nextId = [FirstIds EXCEPT !.task = 2]
    /\ resp = Resp("POST /tasks", 201, 1, 1, "", Midnight(0), Midnight(MaxDay))

NextInst ==
    \/ \E t \in DOMAIN tasks :
          nextId.subtask <= MaxSubtasks /\ CreateSubtask(1, t)
    \/ \E sid \in DOMAIN subtasks : DeleteSubtask(1, sid)
    \/ \E d \in ReadDays : GetTaskInstances(1, d)
    \/ \E i \in DOMAIN instances : ToggleInstance(1, i)
    \/ \E i \in DOMAIN instances, sid \in 1 .. MaxSubtasks :
          /\ findSubtaskInstance(instances[i], sid) # 0
          /\ ToggleSubtaskInstance(1, i, sid)

SpecInst == InitInst /\ [][NextInst]_vars

\* ------------------------------------------------ the sync specification
\* As above with one day read and without the toggle of a whole instance,
\* and the owner of the task may hand it to the other user with a userId
\* field in the body of PUT /tasks/:id; the new owner then adds and deletes
\* its subtasks.
SyncDays == {0}

NextSync ==
    \/ \E t \in DOMAIN tasks :
          nextId.subtask <= MaxSubtasks /\ CreateSubtask(tasks[t].userId, t)
    \/ \E sid \in DOMAIN subtasks :
          DeleteSubtask(tasks[subtasks[sid].taskId].userId, sid)
    \/ \E d \in SyncDays : GetTaskInstances(1, d)
    \/ \E i \in DOMAIN instances, sid \in 1 .. MaxSubtasks :
          /\ findSubtaskInstance(instances[i], sid) # 0
          /\ ToggleSubtaskInstance(1, i, sid)
    \/ \E t \in DOMAIN tasks : \E v \in InstUsers \ {tasks[t].userId} :
          UpdateTask(tasks[t].userId, t, Updates({"userId"}, Null, Null, FALSE, 0, v))

SpecSync == InitInst /\ [][NextSync]_vars

\* ------------------------------------------------- POST /api/auth/register
\* User.findOne({ email }) / Whitelist.findOne({ email }): the matching ids
findUserByEmail(U, email) == {u \in DOMAIN U : U[u].email = email}

findWhitelistByEmail(W, email) == {w \in DOMAIN W : W[w].email = email}

\* without the whitelist gate
whitelistNeverRequired(email) == FALSE

\* "skip for admin email": email !== 'admin@afterlife.org.in'
whitelistRequired(email) == email # BootstrapEmail

\* Whitelist.findOneAndUpdate({ email }, { isUsed: true, usedBy: user._id })
markUsed(W, email, userId) ==
    IF findWhitelistByEmail(W, email) = {} THEN W
    ELSE LET w == CHOOSE x \in findWhitelistByEmail(W, email) :
                     \A y \in findWhitelistByEmail(W, email) : x <= y
         IN  [W EXCEPT ![w] = [@ EXCEPT !.isUsed = TRUE, !.usedBy = userId]]

\* the message of a 400 answer of the registration: 'User already exists with
\* this email' and 'This email has already been used for registration'
MsgUserExists == 1
MsgAlreadyUsed == 2

\* without the check of the used flag
entryNeverAlreadyUsed(W, email) == FALSE

\* "Check if whitelist entry has already been used": whitelistEntry.isUsed
entryAlreadyUsed(W, email) ==
    \E w \in findWhitelistByEmail(W, email) : W[w].isUsed

\* POST /api/auth/register
Register(email) ==
    /\ IF findUserByEmail(users, email) # {}
       THEN /\ resp' = Resp("POST /auth/register", 400, 0, 0, email, 0, MsgUserExists)
            /\ UNCHANGED <<users, whitelist, nextId>>
       ELSE IF whitelistRequired(email) /\ findWhitelistByEmail(whitelist, email) = {}
       THEN /\ resp' = Resp("POST /auth/register", 403, 0, 0, email, 0, 0)
            /\ UNCHANGED <<users, whitelist, nextId>>
       ELSE IF whitelistRequired(email) /\ entryAlreadyUsed(whitelist, email)
       THEN /\ resp' = Resp("POST /auth/register", 400, 0, 0, email, 0, MsgAlreadyUsed)
            /\ UNCHANGED <<users, whitelist, nextId>>
       ELSE /\ users' = (nextId.user :> [email |-> email, isAdmin |-> email \in adminEmails,
                                            password |-> hashed(RegisterPassword)])
                           @@ users
            /\ whitelist' = IF whitelistRequired(email)
                            THEN markUsed(whitelist, email, nextId.user)
                            ELSE whitelist
            /\ nextId' = [nextId EXCEPT !.user = @ + 1]
            /\ resp' = Resp("POST /auth/register", 201, 0, nextId.user, email, 0, 0)
    /\ UNCHANGED <<tasks, subtasks, instances, resetCodes, inflight>>

\* seedDemoUser(): the demo account is created when no user holds its email
seedDemoUser ==
    /\ IF findUserByEmail(users, DemoEmail) # {}
       THEN /\ resp' = Resp("seedDemoUser", 0, 0, 0, DemoEmail, 0, 0)
            /\ UNCHANGED <<users, nextId>>
       ELSE /\ users' = (nextId.user :> [email |-> DemoEmail, isAdmin |-> FALSE,
                                            password |-> hashed(DemoPassword)]) @@ users
            /\ nextId' = [nextId EXCEPT !.user = @ + 1]
            /\ resp' = Resp("seedDemoUser", 0, 0, nextId.user, DemoEmail, 0, 0)
    /\ UNCHANGED <<whitelist, tasks, subtasks, instances, resetCodes, inflight>>

\* ----------------------------------------------- /api/admin users, whitelist
\* DELETE /api/admin/users/:id
DeleteUser(u, id) ==
    /\ auth(u)
    /\ IF ~adminAuth(u)
       THEN /\ resp' = Resp("DELETE /admin/users/:id", 403, u, id, "", 0, 0)
            /\ UNCHANGED <<users, tasks>>
       ELSE IF id = u
       THEN /\ resp' = Resp("DELETE /admin/users/:id", 400, u, id, "", 0, 0)
            /\ UNCHANGED <<users, tasks>>
       ELSE IF id \notin DOMAIN users
       THEN /\ resp' = Resp("DELETE /admin/users/:id", 404, u, id, "", 0, 0)
            /\ UNCHANGED <<users, tasks>>
       ELSE /\ tasks' = [t \in {x \in DOMAIN tasks : tasks[x].userId # id} |-> tasks[t]]
            /\ users' = [x \in DOMAIN users \ {id} |-> users[x]]
            /\ resp' = Resp("DELETE /admin/users/:id", 200, u, id, "", 0, 0)
    /\ UNCHANGED <<whitelist, subtasks, instances, nextId, resetCodes, inflight>>

\* POST /api/admin/whitelist
AddWhitelist(u, email) ==
    /\ auth(u)
    /\ IF ~adminAuth(u)
       THEN /\ resp' = Resp("POST /admin/whitelist", 403, u, 0, email, 0, 0)
            /\ UNCHANGED <<whitelist, nextId>>
       ELSE IF findWhitelistByEmail(whitelist, email) # {}
               \/ findUserByEmail(users, email) # {}
       THEN /\ resp' = Resp("POST /admin/whitelist", 400, u, 0, email, 0, 0)
            /\ UNCHANGED <<whitelist, nextId>>
       ELSE /\ whitelist' = (nextId.whitelist :> [email |-> email, isUsed |-> FALSE, usedBy |-> 0])
                               @@ whitelist
            /\ nextId' = [nextId EXCEPT !.whitelist = @ + 1]
            /\ resp' = Resp("POST /admin/whitelist", 201, u, nextId.whitelist, email, 0, 0)
    /\ UNCHANGED <<users, tasks, subtasks, instances, resetCodes, inflight>>

\* an entry that may always be removed
whitelistEntryNeverUsed(entry) == FALSE

\* "Prevent deletion if email has been used to register"
whitelistEntryUsed(entry) == entry.isUsed

\* DELETE /api/admin/whitelist/:id
DeleteWhitelist(u, id) ==
    /\ auth(u)
    /\ IF ~adminAuth(u)
       THEN /\ resp' = Resp("DELETE /admin/whitelist/:id", 403, u, id, "", 0, 0)
            /\ UNCHANGED whitelist
       ELSE IF id \notin DOMAIN whitelist
       THEN /\ resp' = Resp("DELETE /admin/whitelist/:id", 404, u, id, "", 0, 0)
            /\ UNCHANGED whitelist
       ELSE IF whitelistEntryUsed(whitelist[id])
       THEN /\ resp' = Resp("DELETE /admin/whitelist/:id", 400, u, id, "", 0, 0)
            /\ UNCHANGED whitelist
       ELSE /\ whitelist' = [w \in DOMAIN whitelist \ {id} |-> whitelist[w]]
            /\ resp' = Resp("DELETE /admin/whitelist/:id", 200, u, id, "", 0, 0)
    /\ UNCHANGED <<users, tasks, subtasks, instances, nextId, resetCodes, inflight>>

\* ------------------------------------------ POST /api/admin/reset-codes
\* The values generateResetCode() may return (two of the 900000).
Codes == {111111, 222222}

\* ResetCode.find({ email, isUsed: false })
unusedCodes(R, email) == {r \in DOMAIN R : R[r].email = email /\ ~R[r].isUsed}

\* ResetCode.updateMany({ email, isUsed: false }, { isUsed: true, usedAt })
expireUnused(R, email) ==
    [r \in DOMAIN R |-> IF r \in unusedCodes(R, email)
                        THEN [R[r] EXCEPT !.isUsed = TRUE] ELSE R[r]]

\* The handler of POST /api/admin/reset-codes runs one store operation per
\* step in process p; a step that does not answer the request records the
\* request with status 0.  First step: the auth and adminAuth guards.
IssueStart(p, u, email) ==
    /\ inflight[p].pc = "idle"
    /\ auth(u)
    /\ IF ~adminAuth(u)
       THEN /\ resp' = Resp("POST /admin/reset-codes", 403, u, 0, email, 0, 0)
            /\ UNCHANGED inflight
       ELSE /\ inflight' = [inflight EXCEPT ![p] =
                               [Idle EXCEPT !.pc = "findUser", !.user = u, !.email = email]]
            /\ resp' = Resp("POST /admin/reset-codes", 0, u, 0, email, 0, 0)
    /\ UNCHANGED <<users, whitelist, tasks, subtasks, instances, resetCodes, nextId>>

\* User.findOne({ email })
IssueFindUser(p) ==
    /\ inflight[p].pc = "findUser"
    /\ IF findUserByEmail(users, inflight[p].email) = {}
       THEN /\ resp' = Resp("POST /admin/reset-codes", 404, inflight[p].user, 0,
                            inflight[p].email, 0, 0)
            /\ inflight' = [inflight EXCEPT ![p] = Idle]
       ELSE /\ inflight' = [inflight EXCEPT ![p].pc = "findWhitelist"]
            /\ resp' = Resp("POST /admin/reset-codes", 0, inflight[p].user, 0, inflight[p].email, 0, 0)
    /\ UNCHANGED <<users, whitelist, tasks, subtasks, instances, resetCodes, nextId>>

\* Whitelist.findOne({ email })
IssueFindWhitelist(p) ==
    /\ inflight[p].pc = "findWhitelist"
    /\ IF findWhitelistByEmail(whitelist, inflight[p].email) = {}
       THEN /\ resp' = Resp("POST /admin/reset-codes", 403, inflight[p].user, 0,
                            inflight[p].email, 0, 0)
            /\ inflight' = [inflight EXCEPT ![p] = Idle]
       ELSE /\ inflight' = [inflight EXCEPT ![p].pc = "expire"]
            /\ resp' = Resp("POST /admin/reset-codes", 0, inflight[p].user, 0, inflight[p].email, 0, 0)
    /\ UNCHANGED <<users, whitelist, tasks, subtasks, instances, resetCodes, nextId>>

\* "Expire any existing unused codes for this email"
IssueExpire(p) ==
    /\ inflight[p].pc = "expire"
    /\ resetCodes' = expireUnused(resetCodes, inflight[p].email)
    /\ inflight' = [inflight EXCEPT ![p].pc = "generate"]
    /\ resp' = Resp("POST /admin/reset-codes", 0, inflight[p].user, 0, inflight[p].email, 0, 0)
    /\ UNCHANGED <<users, whitelist, tasks, subtasks, instances, nextId>>

\* One turn of "while (!isUnique)": a code is drawn and looked up among the
\* unused codes; a code that is found there is dropped and the loop goes on.
IssueGenerate(p) ==
    /\ inflight[p].pc = "generate"
    /\ \E code \in Codes :
          IF \E r \in DOMAIN resetCodes : resetCodes[r].code = code /\ ~resetCodes[r].isUsed
          THEN UNCHANGED inflight
          ELSE inflight' = [inflight EXCEPT ![p].pc = "save", ![p].code = code]
    /\ resp' = Resp("POST /admin/reset-codes", 0, inflight[p].user, 0, inflight[p].email, 0, 0)
    /\ UNCHANGED <<users, whitelist, tasks, subtasks, instances, resetCodes, nextId>>

\* resetCode.save(): the unique index on code refuses a code that a stored
\* record holds, used or not, and the catch block answers 500
IssueSave(p) ==
    /\ inflight[p].pc = "save"
    /\ IF \E r \in DOMAIN resetCodes : resetCodes[r].code = inflight[p].code
       THEN /\ resp' = Resp("POST /admin/reset-codes", 500, inflight[p].user, 0,
                            inflight[p].email, 0, 0)
            /\ UNCHANGED <<resetCodes, nextId>>
       ELSE /\ resetCodes' = (nextId.resetCode :>
                                 [code |-> inflight[p].code, email |-> inflight[p].email,
                                  isUsed |-> FALSE, expired |-> FALSE]) @@ resetCodes
            /\ nextId' = [nextId EXCEPT !.resetCode = @ + 1]
            /\ resp' = Resp("POST /admin/reset-codes", 201, inflight[p].user,
                            nextId.resetCode, inflight[p].email, 0, 0)
    /\ inflight' = [inflight EXCEPT ![p] = Idle]
    /\ UNCHANGED <<users, whitelist, tasks, subtasks, instances>>

\* DELETE /api/admin/reset-codes/:id
DeleteResetCode(u, id) ==
    /\ auth(u)
    /\ IF ~adminAuth(u)
       THEN /\ resp' = Resp("DELETE /admin/reset-codes/:id", 403, u, id, "", 0, 0)
            /\ UNCHANGED resetCodes
       ELSE IF id \notin DOMAIN resetCodes
       THEN /\ resp' = Resp("DELETE /admin/reset-codes/:id", 404, u, id, "", 0, 0)
            /\ UNCHANGED resetCodes
       ELSE /\ resetCodes' = deleteById(resetCodes, id)
            /\ resp' = Resp("DELETE /admin/reset-codes/:id", 200, u, id, "", 0, 0)
    /\ UNCHANGED <<users, whitelist, tasks, subtasks, instances, nextId, inflight>>

\* The clock passes the expiresAt of a code (24 hours after its creation).
ClockPassesExpiry(id) ==
    /\ id \in DOMAIN resetCodes
    /\ ~resetCodes[id].expired
    /\ resetCodes' = [resetCodes EXCEPT ![id].expired = TRUE]
    /\ resp' = Resp("clock", 0, 0, id, "", 0, 0)
    /\ UNCHANGED <<users, whitelist, tasks, subtasks, instances, nextId, inflight>>

\* ------------------------- POST /api/auth/reset-password, verify-reset-code
\* a lookup that takes any code of the email
findAnyResetCode(R, code, email) ==
    {r \in DOMAIN R : R[r].email = email}

\* ResetCode.findOne({ code, email, isUsed: false, expiresAt: { $gt: now } })
findValidResetCode(R, code, email) ==
    {r \in DOMAIN R : /\ R[r].code = code /\ R[r].email = email
                      /\ ~R[r].isUsed /\ ~R[r].expired}

\* the status the checks shared by both routes answer, 0 when they all pass
resetChecks(email, code) ==
    IF findUserByEmail(users, email) = {} THEN 404
    ELSE IF findWhitelistByEmail(whitelist, email) = {} THEN 403
    ELSE IF findValidResetCode(resetCodes, code, email) = {} THEN 400
    ELSE 0

\* POST /api/auth/reset-password
ResetPassword(email, code, newPassword) ==
    /\ IF resetChecks(email, code) # 0
       THEN /\ resp' = Resp("POST /auth/reset-password", resetChecks(email, code), 0, 0,
                            email, code, 0)
            /\ UNCHANGED <<users, resetCodes>>
       ELSE LET u == CHOOSE x \in findUserByEmail(users, email) :
                        \A y \in findUserByEmail(users, email) : x <= y
                r == CHOOSE x \in findValidResetCode(resetCodes, code, email) :
                        \A y \in findValidResetCode(resetCodes, code, email) : x <= y
            IN  /\ users' = [users EXCEPT ![u].password = hashed(newPassword)]
                /\ resetCodes' = [resetCodes EXCEPT ![r].isUsed = TRUE]
                /\ resp' = Resp("POST /auth/reset-password", 200, u, r, email, code, 0)
    /\ UNCHANGED <<whitelist, tasks, subtasks, instances, nextId, inflight>>

\* POST /api/auth/verify-reset-code
VerifyResetCode(email, code) ==
    /\ resp' = Resp("POST /auth/verify-reset-code",
                    IF resetChecks(email, code) = 0 THEN 200 ELSE resetChecks(email, code),
                    0, 0, email, code, 0)
    /\ UNCHANGED <<users, whitelist, tasks, subtasks, instances, resetCodes, nextId, inflight>>

\* ------------------------------------------------- DELETE /api/tasks/:id
DeleteTask(u, id) ==
    /\ auth(u)
    /\ IF id \notin DOMAIN tasks \/ tasks[id].userId # u
       THEN /\ resp' = Resp("DELETE /tasks/:id", 404, u, id, "", 0, 0)
            /\ UNCHANGED <<tasks, subtasks>>
       ELSE /\ subtasks' = [x \in {y \in DOMAIN subtasks : subtasks[y].taskId # id}
                               |-> subtasks[x]]
            /\ tasks' = deleteById(tasks, id)
            /\ resp' = Resp("DELETE /tasks/:id", 200, u, id, "", 0, 0)
    /\ UNCHANGED <<users, whitelist, instances, resetCodes, nextId, inflight>>

\* a handler that only reads the stores (the GET routes that list documents)
ReadOnly(op, u) ==
    /\ auth(u)
    /\ resp' = Resp(op, 200, u, 0, "", 0, 0)
    /\ UNCHANGED <<users, whitelist, tasks, subtasks, instances, resetCodes, nextId, inflight>>

\* ------------------------------------------------ the guards of the routes
\* generateToken(user._id): the token a login or a registration hands out
generateToken(userId) == Token(userId, "valid", "todo-app", "todo-users", "access", FALSE)

\* a verification that does not look at the signature
jwtVerifyUnsigned(token) ==
    token.signature # "none" /\ ~token.expired
    /\ token.iss = "todo-app" /\ token.aud = "todo-users"

\* jwt.verify(token, JWT_SECRET, { issuer: 'todo-app', audience: 'todo-users' })
\* returns the payload; any failure throws an error that is answered 401
jwtVerify(token) ==
    /\ token.signature = "valid"
    /\ ~token.expired
    /\ token.iss = "todo-app"
    /\ token.aud = "todo-users"

\* middleware/auth.js: [status, user], status 0 when next() is called
authMiddleware(token) ==
    IF token.signature = "none" THEN [status |-> 401, user |-> 0]
    ELSE IF ~jwtVerify(token) THEN [status |-> 401, user |-> 0]
    ELSE IF token.type # "access" THEN [status |-> 401, user |-> 0]
    ELSE IF token.userId \notin DOMAIN users THEN [status |-> 401, user |-> 0]
    ELSE [status |-> 0, user |-> token.userId]

\* admin.js adminAuth on the request as the guards before it left it: reading
\* req.user.isAdmin throws when no guard has set req.user, which is answered 500
adminAuthMiddleware(req) ==
    IF req.user = 0 THEN [status |-> 500, user |-> 0]
    ELSE IF ~users[req.user].isAdmin THEN [status |-> 403, user |-> req.user]
    ELSE req

\* The guards each route names before its handler, in the order of the source.
UserRoutes ==
    {"GET /tasks", "GET /tasks/static", "GET /tasks/today", "GET /tasks/date/:date",
     "POST /tasks", "PUT /tasks/:id", "DELETE /tasks/:id", "POST /tasks/:taskId/subtasks",
     "PUT /tasks/:id/order", "PUT /subtasks/:id", "DELETE /subtasks/:id",
     "GET /subtasks/task/:taskId", "GET /task-instances/date/:date",
     "PUT /task-instances/:id/complete", "PUT /task-instances/:id/subtask/:subtaskId"}

AdminRoutes ==
    {"GET /admin/users", "GET /admin/stats", "DELETE /admin/users/:id",
     "POST /admin/create-task", "GET /admin/whitelist", "POST /admin/whitelist",
     "DELETE /admin/whitelist/:id", "GET /admin/reset-codes", "POST /admin/reset-codes",
     "DELETE /admin/reset-codes/:id", "GET /admin/user-tasks/:userId/date/:date"}

Guards ==
    [route \in UserRoutes \cup AdminRoutes |->
        IF route \in AdminRoutes THEN <<"auth", "adminAuth">> ELSE <<"auth">>]

RECURSIVE runGuards(_, _, _, _)
\* the guards of chain from position k on, for the request req = [status, user]
runGuards(chain, k, token, req) ==
    IF k > Len(chain) \/ req.status # 0 THEN req
    ELSE runGuards(chain, k + 1, token,
                   IF chain[k] = "auth" THEN authMiddleware(token)
                   ELSE adminAuthMiddleware(req))

\* A client takes a token into use: process 1 holds the token of the requests
\* that are served next.
Receive(token) ==
    /\ inflight' = [inflight EXCEPT ![1] = [Idle EXCEPT !.pc = "received", !.token = token]]
    /\ resp' = Resp("receive", 0, 0, 0, "", 0, 0)
    /\ UNCHANGED <<users, whitelist, tasks, subtasks, instances, resetCodes, nextId>>

\* A request to route with the token in use: the guards run, and the handler
\* runs for the user they resolved when none of them has answered.
Serve(route, handler(_)) ==
    /\ inflight[1].pc = "received"
    /\ LET req == runGuards(Guards[route], 1, inflight[1].token, [status |-> 0, user |-> 0])
       IN  IF req.status # 0
           THEN /\ resp' = Resp(route, req.status, 0, 0, "", 0, 0)
                /\ UNCHANGED <<users, whitelist, tasks, subtasks, instances, resetCodes,
                               nextId, inflight>>
           ELSE handler(req.user)

\* --------------------------------------------- the account specification
\* The stores start empty; the bootstrap administrator registers first, then
\* whitelists addresses, and users come and go.
AuthEmails == {BootstrapEmail, "xanderash44@gmail.com", "x@y.com", DemoEmail}

InitAuth ==
    /\ users = << >>
    /\ whitelist = << >>
    /\ tasks = << >>
    /\ subtasks = << >>
    /\ instances = << >>
    /\ resetCodes = << >>
    /\ inflight = [p \in Procs |-> Idle]
    /\ nextId = [user |-> 1, whitelist |-> 1, task |-> 1, subtask |-> 1, instance |-> 1,
                 resetCode |-> 1]
    /\ resp = NoResp

NextAuth ==
    \/ \E email \in AuthEmails :
          nextId.user <= MaxUsers /\ Register(email)
    \/ nextId.user <= MaxUsers /\ seedDemoUser
    \/ \E u \in DOMAIN users, id \in DOMAIN users : DeleteUser(u, id)
    \/ \E u \in DOMAIN users, email \in AuthEmails :
          nextId.whitelist <= MaxWhitelist /\ AddWhitelist(u, email)
    \/ \E u \in DOMAIN users, id \in DOMAIN whitelist : DeleteWhitelist(u, id)

SpecAuth == InitAuth /\ [][NextAuth]_vars

\* =================================================================== claims
\* ------------------------------------------ the completion specification
\* User 1 creates tasks for day 0 and their subtasks, reads the day, and
\* edits the completed flag of tasks and of subtasks.
CompletionUpdates == {Updates({"completed"}, Null, Null, v, 0, 0) : v \in BOOLEAN}

NextCompletion ==
    \/ nextId.task <= MaxCompletionTasks /\ CreateTask(1, Midnight(0), Midnight(0))
    \/ \E t \in DOMAIN tasks :
          nextId.subtask <= MaxCompletionSubtasks /\ CreateSubtask(1, t)
    \/ GetTaskInstances(1, 0)
    \/ \E t \in DOMAIN tasks, updates \in CompletionUpdates : UpdateTask(1, t, updates)
    \/ \E id \in DOMAIN subtasks, completed \in JsonBooleans : UpdateSubtask(1, id, completed)

SpecCompletion == Init /\ [][NextCompletion]_vars

\* ---------------------------------------------- the reset specification
\* The administrator (user 3) issues reset codes for the registered addresses
\* in two processes whose store operations interleave, and deletes codes; the
\* clock passes expiry times; anyone verifies a code and resets a password.
ResetEmails == {"x@y.com", BootstrapEmail}
NewPasswords == {"pw1", "pw2"}

NextReset ==
    \/ \E p \in Procs, email \in ResetEmails :
          nextId.resetCode <= MaxResetCodes /\ IssueStart(p, 3, email)
    \/ \E p \in Procs : IssueFindUser(p)
    \/ \E p \in Procs : IssueFindWhitelist(p)
    \/ \E p \in Procs : IssueExpire(p)
    \/ \E p \in Procs : IssueGenerate(p)
    \/ \E p \in Procs : IssueSave(p)
    \/ \E id \in DOMAIN resetCodes : DeleteResetCode(3, id)
    \/ \E id \in DOMAIN resetCodes : ClockPassesExpiry(id)
    \/ \E email \in ResetEmails, code \in Codes, newPassword \in NewPasswords :
          ResetPassword(email, code, newPassword)
    \/ \E email \in ResetEmails, code \in Codes : VerifyResetCode(email, code)

SpecReset == Init /\ [][NextReset]_vars

\* ---------------------------------------------- the guard specification
\* Clients send requests with tokens of every kind: the tokens of the three
\* users (which outlive a deleted user), and tokens that are forged, expired,
\* of another issuer, audience or type, or missing.
Tokens ==
    {generateToken(u) : u \in {1, 2, 3}}
    \cup {NoToken,
          Token(3, "forged", "todo-app", "todo-users", "access", FALSE),
          Token(3, "valid", "todo-app", "todo-users", "access", TRUE),
          Token(3, "valid", "other-app", "todo-users", "access", FALSE),
          Token(3, "valid", "todo-app", "other-users", "access", FALSE),
          Token(3, "valid", "todo-app", "todo-users", "refresh", FALSE)}

NextGuard ==
    \/ \E token \in Tokens : Receive(token)
    \/ nextId.task <= MaxGuardTasks
          /\ Serve("POST /tasks", LAMBDA u : CreateTask(u, Midnight(0), Midnight(0)))
    \/ \E id \in DOMAIN tasks : Serve("DELETE /tasks/:id", LAMBDA u : DeleteTask(u, id))
    \/ \E id \in DOMAIN tasks :
          nextId.subtask < nextId.task
          /\ Serve("POST /tasks/:taskId/subtasks", LAMBDA u : CreateSubtask(u, id))
    \/ \E id \in DOMAIN subtasks :
          Serve("DELETE /subtasks/:id", LAMBDA u : DeleteSubtask(u, id))
    \/ Serve("GET /tasks", LAMBDA u : ReadOnly("GET /tasks", u))
    \/ Serve("GET /task-instances/date/:date", LAMBDA u : GetTaskInstances(u, 0))
    \/ Serve("GET /admin/users", LAMBDA u : ReadOnly("GET /admin/users", u))
    \/ nextId.task <= MaxGuardTasks
          /\ Serve("POST /admin/create-task",
                   LAMBDA u : AdminCreateTask(u, 2, Midnight(0), Midnight(0)))
    \/ Serve("DELETE /admin/users/:id", LAMBDA u : DeleteUser(u, 2))

SpecGuard == Init /\ [][NextGuard]_vars

\* ------------------------------- GET /api/tasks/date/:date, GET /api/tasks/today
\* res.json({ tasks, date }): the answer of a handler that lists tasks
RespTasks(op, user, list, a) ==
    [op |-> op, status |-> 200, user |-> user, id |-> 0, s |-> "", a |-> a, b |-> 0,
     tasks |-> list]

\* GET /api/tasks/date/:date
GetTasksForDate(u, day) ==
    /\ auth(u)
    /\ resp' = RespTasks("GET /tasks/date/:date", u,
                         findTasksForDate(tasks, u, Midnight(day)), day)
    /\ UNCHANGED <<users, whitelist, tasks, subtasks, instances, resetCodes, nextId, inflight>>

\* GET /api/tasks/today, asked at the instant today ("new Date()")
GetTasksToday(u, today) ==
    /\ auth(u)
    /\ resp' = RespTasks("GET /tasks/today", u, findTasksForDate(tasks, u, today), today)
    /\ UNCHANGED <<users, whitelist, tasks, subtasks, instances, resetCodes, nextId, inflight>>

\* ------------------------------------------ the static-task specification
\* User 1 and the administrator create static and date-ranged tasks for
\* user 1, who gives a task both dates with PUT /tasks/:id, lists the tasks
\* of any day and reads the instances of day 0.
StaticDates == {Null, Midnight(0), Midnight(MaxDay)}

NextStatic ==
    \/ \E sd \in StaticDates, ed \in StaticDates :
          nextId.task <= MaxDateTasks /\ CreateTask(1, sd, ed)
    \/ \E sd \in StaticDates, ed \in StaticDates :
          nextId.task <= MaxDateTasks /\ AdminCreateTask(3, 1, sd, ed)
    \/ \E id \in DOMAIN tasks :
          UpdateTask(1, id, Updates({"startDate", "endDate"}, Midnight(0), Midnight(MaxDay),
                                    FALSE, 0, 0))
    \/ \E d \in Days : GetTasksForDate(1, d)
    \/ \E today \in Instants : GetTasksToday(1, today)
    \/ GetTaskInstances(1, 0)

SpecStatic == Init /\ [][NextStatic]_vars

\* ------------------------------------ the creation and reorder specification
\* User 1 and the administrator create static tasks and tasks over the
\* overlapping date ranges for user 1, one request at a time, and user 1
\* reorders; no other request touches an order value.
NextCreateReorder ==
    \/ \E r \in OrderRanges :
          nextId.task <= MaxTasks /\ CreateTask(1, r[1], r[2])
    \/ \E r \in OrderRanges :
          nextId.task <= MaxTasks /\ AdminCreateTask(3, 1, r[1], r[2])
    \/ \E id \in 1 .. MaxTasks, dir \in {"up", "down"} : ReorderTask(1, id, dir)

SpecCreateReorder == Init /\ [][NextCreateReorder]_vars

\* ------------------------- PUT /api/tasks/:id/order, one store operation a step
\* The handler as a process p: every await on the store is a step of its own,
\* and what the handler holds between two steps (the documents it has read,
\* with the order values it has assigned to them) is in inflight[p].
\* mem: order values of the documents of allTasks in memory; sorted, k: the
\* renumbering loop; pending: the documents Promise.all still has to save.
Handler(pc, u, id, direction, mem, sorted, k, pending, initialized) ==
    [pc |-> pc, user |-> u, id |-> id, direction |-> direction, mem |-> mem,
     sorted |-> sorted, k |-> k, pending |-> pending, initialized |-> initialized]

\* Task.findOne({ _id: id, userId: req.user._id })
ReorderFindTask(p, u, id, direction) ==
    /\ inflight[p].pc = "idle"
    /\ auth(u)
    /\ IF id \notin DOMAIN tasks \/ tasks[id].userId # u
       THEN /\ resp' = Resp("PUT /tasks/:id/order", 404, u, id, direction, 0, p)
            /\ UNCHANGED inflight
       ELSE /\ inflight' = [inflight EXCEPT ![p] =
                               Handler("findAll", u, id, direction, << >>, << >>, 0, {}, 0)]
            /\ resp' = Resp("PUT /tasks/:id/order", 0, u, id, direction, 0, p)
    /\ UNCHANGED <<users, whitelist, tasks, subtasks, instances, resetCodes, nextId>>

\* "allTasks = await Task.find..." and the test for proper orders on what was
\* read (the dates of the task are those the first read returned: no request
\* of the race specification changes a date)
ReorderFindAll(p) ==
    LET h == inflight[p]
        allTasks == siblingGroup(tasks, h.user, h.id)
        mem == [t \in Range(allTasks) |-> tasks[t].order]
    IN  /\ h.pc = "findAll"
        /\ IF Len(allTasks) <= 1
           THEN /\ inflight' = [inflight EXCEPT ![p] = Idle]
                /\ resp' = Resp("PUT /tasks/:id/order", 400, h.user, h.id, h.direction, 0, p)
           ELSE /\ inflight' = [inflight EXCEPT ![p] =
                    IF hasProperOrders(tasks, allTasks)
                    THEN Handler("locate", h.user, h.id, h.direction, mem, << >>, 0, {}, 0)
                    ELSE Handler("initialize", h.user, h.id, h.direction, mem,
                                 repairSort(tasks, Range(allTasks)), 1, {}, 1)]
                /\ resp' = Resp("PUT /tasks/:id/order", 0, h.user, h.id, h.direction, 0, p)
        /\ UNCHANGED <<users, whitelist, tasks, subtasks, instances, resetCodes, nextId>>

\* document.save() of a document whose order was set to value in memory: the
\* store after it; a document whose order did not change has no modified path
\* and is not written, and a document deleted meanwhile is not written either
saveOrder(T, mem, t, value) ==
    IF t \in DOMAIN T /\ mem[t] # value THEN [T EXCEPT ![t].order = value] ELSE T

\* "allTasks[i].order = i + 1; await allTasks[i].save()": one turn of the loop
ReorderInitializeSave(p) ==
    LET h == inflight[p]
        t == h.sorted[h.k]
    IN  /\ h.pc = "initialize"
        /\ tasks' = saveOrder(tasks, h.mem, t, h.k)
        /\ inflight' = [inflight EXCEPT ![p] =
               Handler(IF h.k = Len(h.sorted) THEN "locate" ELSE "initialize",
                       h.user, h.id, h.direction, [h.mem EXCEPT ![t] = h.k],
                       h.sorted, h.k + 1, {}, 1)]
        /\ resp' = Resp("PUT /tasks/:id/order", 0, h.user, h.id, h.direction, 1, p)
        /\ UNCHANGED <<users, whitelist, subtasks, instances, resetCodes, nextId>>

\* the sort by order, findIndex, the target position and the swap, all on the
\* documents in memory
ReorderLocate(p) ==
    LET h == inflight[p]
        sorted == SortByKey(DOMAIN h.mem, h.mem)
        currentIndex == IndexOf(sorted, h.id)
        target == targetIndex(h.direction, currentIndex, Len(sorted))
    IN  /\ h.pc = "locate"
        /\ IF target = 0
           THEN /\ inflight' = [inflight EXCEPT ![p] = Idle]
                /\ resp' = Resp("PUT /tasks/:id/order", 400, h.user, h.id, h.direction,
                                h.initialized, p)
           ELSE /\ inflight' = [inflight EXCEPT ![p] =
                      Handler("save", h.user, h.id, h.direction, h.mem,
                              <<sorted[currentIndex], sorted[target]>>, 0,
                              {sorted[currentIndex], sorted[target]}, h.initialized)]
                /\ resp' = Resp("PUT /tasks/:id/order", 0, h.user, h.id, h.direction,
                                h.initialized, p)
        /\ UNCHANGED <<users, whitelist, tasks, subtasks, instances, resetCodes, nextId>>

\* "await Promise.all([currentTask.save(), targetTask.save()])": one of the two
\* saves reaches the store; the answer is sent after the second
ReorderSave(p, t) ==
    LET h == inflight[p]
        other == IF t = h.sorted[1] THEN h.sorted[2] ELSE h.sorted[1]
    IN  /\ h.pc = "save"
        /\ t \in h.pending
        /\ tasks' = saveOrder(tasks, h.mem, t, h.mem[other])
        /\ IF h.pending = {t}
           THEN /\ inflight' = [inflight EXCEPT ![p] = Idle]
                /\ resp' = Resp("PUT /tasks/:id/order", 200, h.user, h.id, h.direction,
                                h.initialized, p)
           ELSE /\ inflight' = [inflight EXCEPT ![p].pending = @ \ {t}]
                /\ resp' = Resp("PUT /tasks/:id/order", 0, h.user, h.id, h.direction,
                                h.initialized, p)
        /\ UNCHANGED <<users, whitelist, subtasks, instances, resetCodes, nextId>>

\* -------------------------------------------- the reorder race specification
\* User 1 owns the static tasks 1 .. MaxRaceTasks, created in this order. Two
\* processes serve reorder requests whose store operations interleave; a
\* request that arrives while no other is being served may also run alone,
\* from its first read to its answer.
InitRace ==
    /\ users = Accounts
    /\ whitelist = AccountsWhitelist
    /\ tasks = [t \in 1 .. MaxRaceTasks |->
                   [userId |-> 1, order |-> t, startDate |-> Null, endDate |-> Null,
                    completed |-> FALSE, subtasks |-> <<>>]]
    /\ subtasks = << >>
    /\ instances = << >>
    /\ resetCodes = << >>
    /\ inflight = [p \in Procs |-> Idle]
    /\ nextId = [FirstIds EXCEPT !.task = MaxRaceTasks + 1]
    /\ resp = Resp("POST /tasks", 201, 1, MaxRaceTasks, "", Null, Null)

AllIdle == \A p \in Procs : inflight[p].pc = "idle"

NextRace ==
    \/ \E p \in Procs, id \in DOMAIN tasks, dir \in {"up", "down"} :
          ReorderFindTask(p, 1, id, dir)
    \/ \E p \in Procs : ReorderFindAll(p)
    \/ \E p \in Procs : ReorderInitializeSave(p)
    \/ \E p \in Procs : ReorderLocate(p)
    \/ \E p \in Procs, t \in DOMAIN tasks : ReorderSave(p, t)
    \/ \E id \in DOMAIN tasks, dir \in {"up", "down"} :
          AllIdle /\ ReorderTask(1, id, dir)

SpecRace == InitRace /\ [][NextRace]_vars

\* ----------------- the date reads of task instances, one store operation a step
\* GET /api/task-instances/date/:date (route "user") and GET
\* /api/admin/user-tasks/:userId/date/:date (route "admin") as a process p.
\* activeTasks, k: the loop over the active tasks; lists: the subtasks the
\* admin route populated with its task query; found, read: the instance
\* findOne returned (0: none) and its entries as read; entries: the entries
\* the next save writes.
Reader(pc, route, caller, userId, date, activeTasks, lists, k, found, read, entries) ==
    [pc |-> pc, route |-> route, user |-> caller, userId |-> userId, date |-> date,
     activeTasks |-> activeTasks, lists |-> lists, k |-> k, found |-> found,
     read |-> read, entries |-> entries]

ReadOpOf(route) ==
    IF route = "admin" THEN "GET /admin/user-tasks/:userId/date/:date"
    ELSE "GET /task-instances/date/:date"

\* the answer of a step of the read served by process p (status 0: the
\* handler has not answered yet)
ReadResp(h, status, p) == Resp(ReadOpOf(h.route), status, h.user, h.userId, "", h.date, p)

\* the handler moves on to the next task of its loop
nextTask(h) ==
    Reader("findInstance", h.route, h.user, h.userId, h.date, h.activeTasks, h.lists,
           h.k + 1, 0, << >>, << >>)

\* the reads before the loop: the guards, User.findById (admin route) and the
\* query for the tasks active on the day
ReadStart(p, route, caller, userId, day) ==
    /\ inflight[p].pc = "idle"
    /\ auth(caller)
    /\ route = "user" => userId = caller
    /\ LET op == ReadOpOf(route)
           activeTasks == findTasksForDate(tasks, userId, Midnight(day))
           lists == IF route = "admin"
                    THEN [t \in Range(activeTasks) |-> populatedSubtasks(tasks, subtasks, t)]
                    ELSE << >>
       IN  IF route = "admin" /\ ~adminAuth(caller)
           THEN /\ resp' = Resp(op, 403, caller, userId, "", Midnight(day), p)
                /\ UNCHANGED inflight
           ELSE IF route = "admin" /\ userId \notin DOMAIN users
           THEN /\ resp' = Resp(op, 404, caller, userId, "", Midnight(day), p)
                /\ UNCHANGED inflight
           ELSE /\ inflight' = [inflight EXCEPT ![p] =
                       Reader("findInstance", route, caller, userId, Midnight(day),
                              activeTasks, lists, 1, 0, << >>, << >>)]
                /\ resp' = Resp(op, 0, caller, userId, "", Midnight(day), p)
    /\ UNCHANGED <<users, whitelist, tasks, subtasks, instances, resetCodes, nextId>>

\* the entries of a new instance for the subtasks current
newEntries(current) == [k \in 1 .. Len(current) |-> [subtaskId |-> current[k], completed |-> FALSE]]

\* TaskInstance.findOne({ taskId, userId, date }) for the next task of the
\* loop, or res.json(...) after the last one
ReadFindInstance(p) ==
    LET h == inflight[p] IN
    /\ h.pc = "findInstance"
    /\ IF h.k > Len(h.activeTasks)
       THEN /\ inflight' = [inflight EXCEPT ![p] = Idle]
            /\ resp' = ReadResp(h, 200, p)
       ELSE LET t == h.activeTasks[h.k]
                found == findInstances(instances, t, h.userId, h.date)
                i == IF found = {} THEN 0 ELSE CHOOSE x \in found : \A y \in found : x <= y
            IN  /\ resp' = ReadResp(h, 0, p)
                /\ inflight' = [inflight EXCEPT ![p] =
                      IF h.route = "admin"
                      THEN IF i # 0 THEN nextTask(h)
                           ELSE Reader("insert", h.route, h.user, h.userId, h.date,
                                       h.activeTasks, h.lists, h.k, 0, << >>,
                                       newEntries(h.lists[t]))
                      ELSE Reader("findTask", h.route, h.user, h.userId, h.date,
                                  h.activeTasks, h.lists, h.k, i,
                                  IF i # 0 THEN instances[i].subtaskInstances ELSE << >>,
                                  << >>)]
    /\ UNCHANGED <<users, whitelist, tasks, subtasks, instances, resetCodes, nextId>>

\* Task.findById(taskId).populate('subtasks') of getOrCreateTaskInstance, and
\* what the function does in memory up to its save; 'Task not found' is
\* caught by the loop of the handler
ReadFindTask(p) ==
    LET h == inflight[p]
        t == h.activeTasks[h.k]
    IN
    /\ h.pc = "findTask"
    /\ resp' = ReadResp(h, 0, p)
    /\ IF t \notin DOMAIN tasks
       THEN inflight' = [inflight EXCEPT ![p] = nextTask(h)]
       ELSE LET current == populatedSubtasks(tasks, subtasks, t)
                synced == syncSubtaskInstances(h.read, current)
            IN  inflight' = [inflight EXCEPT ![p] =
                   IF h.found = 0
                   THEN Reader("insert", h.route, h.user, h.userId, h.date, h.activeTasks,
                               h.lists, h.k, 0, << >>, newEntries(current))
                   ELSE IF synced # h.read
                   THEN Reader("sync", h.route, h.user, h.userId, h.date, h.activeTasks,
                               h.lists, h.k, h.found, h.read, synced)
                   ELSE nextTask(h)]
    /\ UNCHANGED <<users, whitelist, tasks, subtasks, instances, resetCodes, nextId>>

\* a store without the unique index: no insert is refused
duplicateKeyNever(I, taskId, userId, date) == FALSE

\* taskInstanceSchema.index({ taskId: 1, userId: 1, date: 1 }, { unique: true }):
\* TRUE when the insert of an instance for the triple is refused (E11000)
duplicateKey(I, taskId, userId, date) == findInstances(I, taskId, userId, date) # {}

\* "await instance.save()" of a new instance: a refused insert throws, which
\* the loop of the user route catches and the admin route answers with 500
ReadInsert(p) ==
    LET h == inflight[p]
        t == h.activeTasks[h.k]
    IN
    /\ h.pc = "insert"
    /\ IF duplicateKey(instances, t, h.userId, h.date)
       THEN /\ UNCHANGED <<instances, nextId>>
            /\ IF h.route = "admin"
               THEN /\ inflight' = [inflight EXCEPT ![p] = Idle]
                    /\ resp' = [ReadResp(h, 500, p) EXCEPT !.s = "E11000"]
               ELSE /\ inflight' = [inflight EXCEPT ![p] = nextTask(h)]
                    /\ resp' = [ReadResp(h, 0, p) EXCEPT !.s = "E11000"]
       ELSE /\ instances' = (nextId.instance :>
                               [taskId |-> t, userId |-> h.userId, date |-> h.date,
                                completed |-> FALSE, subtaskInstances |-> h.entries])
                            @@ instances
            /\ nextId' = [nextId EXCEPT !.instance = @ + 1]
            /\ inflight' = [inflight EXCEPT ![p] = nextTask(h)]
            /\ resp' = ReadResp(h, 0, p)
    /\ UNCHANGED <<users, whitelist, tasks, subtasks, resetCodes>>

\* the subtask ids of a list of entries
entryIds(entries) == [k \in 1 .. Len(entries) |-> entries[k].subtaskId]

\* "await instance.save()" of a synchronised instance: the array was assigned
\* anew (the filter), so the save sets the whole array, under Mongoose's check
\* of the document version, which every save that adds or removes an entry
\* increments (compared here through the ids of the stored entries); a failed
\* check throws, which the loop of the handler catches
ReadSync(p) ==
    LET h == inflight[p] IN
    /\ h.pc = "sync"
    /\ resp' = ReadResp(h, 0, p)
    /\ inflight' = [inflight EXCEPT ![p] = nextTask(h)]
    /\ IF h.found \in DOMAIN instances
          /\ entryIds(instances[h.found].subtaskInstances) = entryIds(h.read)
       THEN instances' = [instances EXCEPT ![h.found].subtaskInstances = h.entries]
       ELSE UNCHANGED instances
    /\ UNCHANGED <<users, whitelist, tasks, subtasks, resetCodes, nextId>>

\* ---------------------------------------------- the read race specification
\* User 1 owns one task that runs from day 0 to the last day and adds and
\* deletes subtasks; two processes serve reads of day 0, by the owner and by
\* the administrator (user 3) for the owner, and their store operations
\* interleave.
ReadRoutes == {<<"user", 1>>, <<"admin", 3>>}

NextReadRace ==
    \/ \E p \in Procs, r \in ReadRoutes, d \in SyncDays : ReadStart(p, r[1], r[2], 1, d)
    \/ \E p \in Procs : ReadFindInstance(p)
    \/ \E p \in Procs : ReadFindTask(p)
    \/ \E p \in Procs : ReadInsert(p)
    \/ \E p \in Procs : ReadSync(p)
    \/ \E t \in DOMAIN tasks :
          nextId.subtask <= MaxRaceSubtasks /\ CreateSubtask(1, t)
    \/ \E sid \in DOMAIN subtasks : DeleteSubtask(1, sid)

SpecReadRace == InitInst /\ [][NextReadRace]_vars

\* ------------------ POST /api/tasks/:taskId/subtasks, one store operation a step
\* The handler as a process p. subtask: the id of the new subtask (0 before
\* its save); pending: the instances of existingInstances not yet saved.
Poster(pc, u, taskId, subtask, pending) ==
    [pc |-> pc, user |-> u, taskId |-> taskId, subtask |-> subtask, pending |-> pending]

PostResp(h, status, p) ==
    Resp("POST /tasks/:taskId/subtasks", status, h.user, h.taskId, "", h.subtask, p)

\* Task.findOne({ _id: taskId, userId: req.user._id })
PostFindTask(p, u, taskId) ==
    /\ inflight[p].pc = "idle"
    /\ auth(u)
    /\ IF taskId \notin DOMAIN tasks \/ tasks[taskId].userId # u
       THEN /\ resp' = Resp("POST /tasks/:taskId/subtasks", 404, u, taskId, "", 0, p)
            /\ UNCHANGED inflight
       ELSE /\ inflight' = [inflight EXCEPT ![p] = Poster("saveSubtask", u, taskId, 0, {})]
            /\ resp' = Resp("POST /tasks/:taskId/subtasks", 0, u, taskId, "", 0, p)
    /\ UNCHANGED <<users, whitelist, tasks, subtasks, instances, resetCodes, nextId>>

\* "await subtask.save()"
PostSaveSubtask(p) ==
    LET h == inflight[p]
        id == nextId.subtask
    IN
    /\ h.pc = "saveSubtask"
    /\ subtasks' = (id :> [taskId |-> h.taskId, completed |-> FALSE]) @@ subtasks
    /\ nextId' = [nextId EXCEPT !.subtask = @ + 1]
    /\ inflight' = [inflight EXCEPT ![p] = Poster("saveTask", h.user, h.taskId, id, {})]
    /\ resp' = Resp("POST /tasks/:taskId/subtasks", 0, h.user, h.taskId, "", id, p)
    /\ UNCHANGED <<users, whitelist, tasks, instances, resetCodes>>

\* "task.subtasks.push(subtask._id); await task.save()": the id is pushed onto
\* the stored list; a save that throws is answered 500
PostSaveTask(p) ==
    LET h == inflight[p] IN
    /\ h.pc = "saveTask"
    /\ IF h.taskId \notin DOMAIN tasks \/ ~validTask(tasks[h.taskId])
       THEN /\ UNCHANGED tasks
            /\ inflight' = [inflight EXCEPT ![p] = Idle]
            /\ resp' = PostResp(h, 500, p)
       ELSE /\ tasks' = [tasks EXCEPT ![h.taskId].subtasks = Append(@, h.subtask)]
            /\ inflight' = [inflight EXCEPT ![p] =
                              Poster("findInstances", h.user, h.taskId, h.subtask, {})]
            /\ resp' = PostResp(h, 0, p)
    /\ UNCHANGED <<users, whitelist, subtasks, instances, resetCodes, nextId>>

\* TaskInstance.find({ taskId, userId: req.user._id })
PostFindInstances(p) ==
    LET h == inflight[p] IN
    /\ h.pc = "findInstances"
    /\ inflight' = [inflight EXCEPT ![p] =
           Poster("saveInstance", h.user, h.taskId, h.subtask,
                  {i \in DOMAIN instances :
                      instances[i].taskId = h.taskId /\ instances[i].userId = h.user})]
    /\ resp' = PostResp(h, 0, p)
    /\ UNCHANGED <<users, whitelist, tasks, subtasks, instances, resetCodes, nextId>>

\* one turn of "for (const instance of existingInstances)": the push of the
\* new entry and "await instance.save()", which sends the push to the store
\* (Mongoose saves a push on an array as $push, without a check of the
\* document version), or the answer after the last turn
PostSaveInstance(p) ==
    LET h == inflight[p] IN
    /\ h.pc = "saveInstance"
    /\ IF h.pending = {}
       THEN /\ UNCHANGED instances
            /\ inflight' = [inflight EXCEPT ![p] = Idle]
            /\ resp' = PostResp(h, 201, p)
       ELSE LET i == CHOOSE x \in h.pending : \A y \in h.pending : x <= y IN
            /\ instances' = IF i \in DOMAIN instances
                            THEN [instances EXCEPT ![i].subtaskInstances =
                                     Append(@, [subtaskId |-> h.subtask, completed |-> FALSE])]
                            ELSE instances
            /\ inflight' = [inflight EXCEPT ![p].pending = @ \ {i}]
            /\ resp' = PostResp(h, 0, p)
    /\ UNCHANGED <<users, whitelist, tasks, subtasks, resetCodes, nextId>>

\* ---------------------------------------------- the push race specification
\* User 1 owns one task that runs from day 0 to the last day; two processes
\* serve the owner's subtask creations and reads of day 0, and their store
\* operations interleave.
NextPushRace ==
    \/ \E p \in Procs, t \in DOMAIN tasks :
          nextId.subtask <= MaxRaceSubtasks /\ PostFindTask(p, 1, t)
    \/ \E p \in Procs : PostSaveSubtask(p)
    \/ \E p \in Procs : PostSaveTask(p)
    \/ \E p \in Procs : PostFindInstances(p)
    \/ \E p \in Procs : PostSaveInstance(p)
    \/ \E p \in Procs, d \in SyncDays : ReadStart(p, "user", 1, 1, d)
    \/ \E p \in Procs : ReadFindInstance(p)
    \/ \E p \in Procs : ReadFindTask(p)
    \/ \E p \in Procs : ReadInsert(p)
    \/ \E p \in Procs : ReadSync(p)

SpecPushRace == InitInst /\ [][NextPushRace]_vars

\* ------------------- POST /api/auth/reset-password, one store operation a step
\* The handler as a process p; user and r are the documents its lookups
\* returned (0 before the lookup).
Resetter(pc, email, code, newPassword, user, r) ==
    [pc |-> pc, email |-> email, code |-> code, newPassword |-> newPassword,
     user |-> user, r |-> r]

ResetResp(h, status, p) ==
    Resp("POST /auth/reset-password", status, h.user, h.r, h.email, h.code, p)

\* User.findOne({ email })
ResetFindUser(p, email, code, newPassword) ==
    LET found == findUserByEmail(users, email)
        h == Resetter("findWhitelist", email, code, newPassword,
                      IF found = {} THEN 0 ELSE CHOOSE x \in found : \A y \in found : x <= y, 0)
    IN
    /\ inflight[p].pc = "idle"
    /\ IF found = {}
       THEN /\ resp' = ResetResp(h, 404, p)
            /\ UNCHANGED inflight
       ELSE /\ resp' = ResetResp(h, 0, p)
            /\ inflight' = [inflight EXCEPT ![p] = h]
    /\ UNCHANGED <<users, whitelist, tasks, subtasks, instances, resetCodes, nextId>>

\* Whitelist.findOne({ email })
ResetFindWhitelist(p) ==
    LET h == inflight[p] IN
    /\ h.pc = "findWhitelist"
    /\ IF findWhitelistByEmail(whitelist, h.email) = {}
       THEN /\ resp' = ResetResp(h, 403, p)
            /\ inflight' = [inflight EXCEPT ![p] = Idle]
       ELSE /\ resp' = ResetResp(h, 0, p)
            /\ inflight' = [inflight EXCEPT ![p].pc = "findCode"]
    /\ UNCHANGED <<users, whitelist, tasks, subtasks, instances, resetCodes, nextId>>

\* ResetCode.findOne({ code, email, isUsed: false, expiresAt: { $gt: now } })
ResetFindCode(p) ==
    LET h == inflight[p]
        found == findValidResetCode(resetCodes, h.code, h.email)
    IN
    /\ h.pc = "findCode"
    /\ IF found = {}
       THEN /\ resp' = ResetResp(h, 400, p)
            /\ inflight' = [inflight EXCEPT ![p] = Idle]
       ELSE LET r == CHOOSE x \in found : \A y \in found : x <= y IN
            /\ resp' = ResetResp([h EXCEPT !.r = r], 0, p)
            /\ inflight' = [inflight EXCEPT ![p] = [h EXCEPT !.pc = "saveUser", !.r = r]]
    /\ UNCHANGED <<users, whitelist, tasks, subtasks, instances, resetCodes, nextId>>

\* "user.password = newPassword; await user.save()"; the save of a user
\* deleted meanwhile throws
ResetSaveUser(p) ==
    LET h == inflight[p] IN
    /\ h.pc = "saveUser"
    /\ IF h.user \notin DOMAIN users
       THEN /\ UNCHANGED users
            /\ resp' = ResetResp(h, 500, p)
            /\ inflight' = [inflight EXCEPT ![p] = Idle]
       ELSE /\ users' = [users EXCEPT ![h.user].password = hashed(h.newPassword)]
            /\ resp' = ResetResp(h, 0, p)
            /\ inflight' = [inflight EXCEPT ![p].pc = "saveCode"]
    /\ UNCHANGED <<whitelist, tasks, subtasks, instances, resetCodes, nextId>>

\* "resetCode.isUsed = true; await resetCode.save()" and the answer: the save
\* sets the field whatever the stored document holds by now; the save of a
\* code deleted meanwhile throws
ResetSaveCode(p) ==
    LET h == inflight[p] IN
    /\ h.pc = "saveCode"
    /\ inflight' = [inflight EXCEPT ![p] = Idle]
    /\ IF h.r \notin DOMAIN resetCodes
       THEN /\ UNCHANGED resetCodes
            /\ resp' = ResetResp(h, 500, p)
       ELSE /\ resetCodes' = [resetCodes EXCEPT ![h.r].isUsed = TRUE]
            /\ resp' = ResetResp(h, 200, p)
    /\ UNCHANGED <<users, whitelist, tasks, subtasks, instances, nextId>>

\* ---------------------------------------------- the reset race specification
\* The administrator has issued one code for each of the users 1 and 2. Two
\* processes serve password resets whose store operations interleave, and the
\* clock passes expiry times. Nothing but a reset marks a code used here.
InitResetRace ==
    /\ users = Accounts
    /\ whitelist = AccountsWhitelist
    /\ tasks = << >>
    /\ subtasks = << >>
    /\ instances = << >>
    /\ resetCodes = (1 :> [code |-> 111111, email |-> "x@y.com", isUsed |-> FALSE,
                           expired |-> FALSE])
                    @@ (2 :> [code |-> 222222, email |-> "z@y.com", isUsed |-> FALSE,
                              expired |-> FALSE])
    /\ inflight = [p \in Procs |-> Idle]
    /\ nextId = [FirstIds EXCEPT !.resetCode = 3]
    /\ resp = Resp("POST /admin/reset-codes", 201, 3, 2, "z@y.com", 222222, 0)

RaceEmails == {"x@y.com", "z@y.com", "nobody@y.com"}

NextResetRace ==
    \/ \E p \in Procs, email \in RaceEmails, code \in Codes, newPassword \in NewPasswords :
          ResetFindUser(p, email, code, newPassword)
    \/ \E p \in Procs : ResetFindWhitelist(p)
    \/ \E p \in Procs : ResetFindCode(p)
    \/ \E p \in Procs : ResetSaveUser(p)
    \/ \E p \in Procs : ResetSaveCode(p)
    \/ \E id \in DOMAIN resetCodes : ClockPassesExpiry(id)

SpecResetRace == InitResetRace /\ [][NextResetRace]_vars

ReorderOp == "PUT /tasks/:id/order"

\* the ids of the sibling group a reorder request for task id works on
GroupOf(T, u, id) == Range(siblingGroup(T, u, id))

\* n is the immediate neighbour of id in the requested direction, by order value
NeighbourOf(T, group, id, direction, n) ==
    /\ n \in group \ {id}
    /\ IF direction = "up"
       THEN /\ T[n].order < T[id].order
            /\ \A m \in group : ~(T[n].order < T[m].order /\ T[m].order < T[id].order)
       ELSE /\ T[n].order > T[id].order
            /\ \A m \in group : ~(T[id].order < T[m].order /\ T[m].order < T[n].order)

\* the step exchanged the order values of id and one neighbour and changed
\* the order value of no other task
PureSwap(id, u, direction) ==
    \E n \in GroupOf(tasks, u, id) :
        /\ NeighbourOf(tasks, GroupOf(tasks, u, id), id, direction, n)
        /\ tasks'[id].order = tasks[n].order
        /\ tasks'[n].order = tasks[id].order
        /\ tasks'[id].order # tasks[id].order
        /\ tasks'[n].order # tasks[n].order
        /\ \A t \in DOMAIN tasks \ {id, n} : tasks'[t].order = tasks[t].order
        /\ DOMAIN tasks' = DOMAIN tasks

\* C1 as stated: after every successful reorder exactly the target task and
\* its neighbour in the requested direction have exchanged their order values
\* and every other task keeps its order value.
C1_EverySuccessfulReorderIsPureSwap ==
    [][(resp'.op = ReorderOp /\ resp'.status = 200)
        => PureSwap(resp'.id, resp'.user, resp'.s)]_vars

\* C1 amended: after a successful reorder of a group whose order values were
\* all positive and pairwise distinct when the request arrived, exactly the
\* target task and its neighbour in the requested direction have exchanged
\* their order values and every other task keeps its order value.
C1_ProperGroupReorderIsPureSwap ==
    [][(/\ resp'.op = ReorderOp /\ resp'.status = 200
        /\ hasProperOrders(tasks, siblingGroup(tasks, resp'.user, resp'.id)))
        => PureSwap(resp'.id, resp'.user, resp'.s)]_vars

\* a successful reorder that did not renumber, in a group of three tasks
C1_Witness ==
    /\ resp.op = ReorderOp /\ resp.status = 200 /\ resp.a = 0
    /\ Cardinality(GroupOf(tasks, resp.user, resp.id)) >= 3

\* id comes before m in the sort by (order, creation time)
Before(T, id, m) ==
    \/ T[id].order < T[m].order
    \/ T[id].order = T[m].order /\ createdAt(id) < createdAt(m)

IsFirst(T, group, id) == \A m \in group \ {id} : Before(T, id, m)
IsLast(T, group, id) == \A m \in group \ {id} : Before(T, m, id)

\* C2: a reorder request is answered with an error whenever the task's
\* sibling group has at most one member, or the direction is up and the task
\* is first in the group sorted by order, or the direction is down and the
\* task is last.
C2_ReorderAtTheEdgeFails ==
    [][(/\ resp'.op = ReorderOp
        /\ resp'.id \in DOMAIN tasks /\ tasks[resp'.id].userId = resp'.user
        /\ LET group == GroupOf(tasks, resp'.user, resp'.id) IN
           \/ Cardinality(group) <= 1
           \/ resp'.s = "up" /\ IsFirst(tasks, group, resp'.id)
           \/ resp'.s = "down" /\ IsLast(tasks, group, resp'.id))
        => resp'.status >= 400]_vars

\* the first task of a group of two or more was asked to move up and refused
C2_Witness ==
    /\ resp.op = ReorderOp /\ resp.status = 400 /\ resp.s = "up"
    /\ resp.id \in DOMAIN tasks
    /\ Cardinality(GroupOf(tasks, resp.user, resp.id)) >= 2
    /\ IsFirst(tasks, GroupOf(tasks, resp.user, resp.id), resp.id)

\* C3: every stored task has startDate and endDate both present or both
\* absent, and endDate >= startDate when both are present.
C3_DatesBothOrNeitherAndOrdered ==
    \A t \in DOMAIN tasks :
        /\ (tasks[t].startDate = Null) <=> (tasks[t].endDate = Null)
        /\ (tasks[t].startDate # Null /\ tasks[t].endDate # Null)
              => tasks[t].endDate >= tasks[t].startDate

CreateOps == {"POST /tasks", "POST /admin/create-task"}

\* the body's endDate is earlier than its startDate, or it carries one date
RejectedDates(startDate, endDate) ==
    \/ startDate # Null /\ endDate # Null /\ endDate < startDate
    \/ startDate # Null /\ endDate = Null
    \/ startDate = Null /\ endDate # Null

\* C4: a creation request whose endDate is earlier than its startDate, or
\* which carries exactly one of the two dates, is answered with the
\* validation failure (400) and creates no task.
C4_RejectedDatesFailValidation ==
    [][(resp'.op \in CreateOps /\ RejectedDates(resp'.a, resp'.b))
        => (resp'.status = 400 /\ tasks' = tasks)]_vars

ToggleSubtaskOp == "PUT /task-instances/:id/subtask/:subtaskId"
ToggleInstanceOp == "PUT /task-instances/:id/complete"
ReadDayOp == "GET /task-instances/date/:date"
DeleteSubtaskOp == "DELETE /subtasks/:id"

AllCompleted(instance) ==
    \A k \in 1 .. Len(instance.subtaskInstances) : instance.subtaskInstances[k].completed

NoneCompleted(instance) ==
    \A k \in 1 .. Len(instance.subtaskInstances) : ~instance.subtaskInstances[k].completed

SubtaskIdsOf(instance) ==
    {instance.subtaskInstances[k].subtaskId : k \in 1 .. Len(instance.subtaskInstances)}

\* the entries of new are those of old with the entry of subtaskId flipped
FlippedEntry(old, new, subtaskId) ==
    /\ Len(new.subtaskInstances) = Len(old.subtaskInstances)
    /\ \A k \in 1 .. Len(old.subtaskInstances) :
          /\ new.subtaskInstances[k].subtaskId = old.subtaskInstances[k].subtaskId
          /\ new.subtaskInstances[k].completed =
                IF old.subtaskInstances[k].subtaskId = subtaskId
                THEN ~old.subtaskInstances[k].completed
                ELSE old.subtaskInstances[k].completed

\* C5: a successful toggle of a subtask instance flips that entry; afterwards
\* the instance is completed if every entry is completed, is incomplete if
\* some entry is incomplete and it was completed, and otherwise keeps its flag.
C5_SubtaskToggleReevaluatesInstance ==
    [][(resp'.op = ToggleSubtaskOp /\ resp'.status = 200)
        => LET old == instances[resp'.id]
               new == instances'[resp'.id]
           IN  /\ FlippedEntry(old, new, resp'.a)
               /\ new.completed =
                     IF AllCompleted(new) THEN TRUE
                     ELSE IF old.completed THEN FALSE
                     ELSE old.completed]_vars

\* the second of two entries was completed and the instance became completed
C5_Witness ==
    /\ resp.op = ToggleSubtaskOp /\ resp.status = 200
    /\ Len(instances[resp.id].subtaskInstances) = 2
    /\ AllCompleted(instances[resp.id])
    /\ instances[resp.id].completed

\* C6: a successful toggle of an instance inverts its flag and sets every
\* entry to the new value; and a toggle of one entry of an instance that is
\* incomplete leaves it incomplete unless every entry is then completed, in
\* which case it becomes completed.
C6_InstanceToggleCascades ==
    [][/\ (resp'.op = ToggleInstanceOp /\ resp'.status = 200)
          => LET old == instances[resp'.id]
                 new == instances'[resp'.id]
             IN  /\ new.completed = ~old.completed
                 /\ Len(new.subtaskInstances) = Len(old.subtaskInstances)
                 /\ \A k \in 1 .. Len(new.subtaskInstances) :
                       /\ new.subtaskInstances[k].completed = new.completed
                       /\ new.subtaskInstances[k].subtaskId = old.subtaskInstances[k].subtaskId
       /\ (resp'.op = ToggleSubtaskOp /\ resp'.status = 200 /\ ~instances[resp'.id].completed)
          => (instances'[resp'.id].completed <=> AllCompleted(instances'[resp'.id]))]_vars

\* an instance with two entries was toggled to incomplete
C6_Witness ==
    /\ resp.op = ToggleInstanceOp /\ resp.status = 200
    /\ Len(instances[resp.id].subtaskInstances) = 2
    /\ ~instances[resp.id].completed
    /\ NoneCompleted(instances[resp.id])

\* the entry of subtask sid in the instance, as a set (empty when there is none)
EntriesFor(instance, sid) ==
    {instance.subtaskInstances[k] : k \in {j \in 1 .. Len(instance.subtaskInstances) :
                                             instance.subtaskInstances[j].subtaskId = sid}}

\* C7: after a successful read of day D by user U every date-ranged task of U
\* active on D has an instance for (task, U, D) whose entries name exactly
\* the task's current subtasks, once each: a new instance holds them all
\* incomplete; an instance that existed gains an incomplete entry for each
\* missing subtask, loses the entries of subtasks no longer on the task, and
\* keeps the flag of every entry it retains.
C7_ReadMaterializesAndSyncs ==
    [][(resp'.op = ReadDayOp /\ resp'.status = 200)
        => \A t \in findTasksForDateQuery(tasks', resp'.user, Midnight(resp'.a)) :
              \E i \in DOMAIN instances' :
                 LET new == instances'[i]
                     current == Range(tasks'[t].subtasks)
                 IN  /\ new.taskId = t /\ new.userId = resp'.user
                     /\ new.date = Midnight(resp'.a)
                     /\ SubtaskIdsOf(new) = current
                     /\ Len(new.subtaskInstances) = Cardinality(current)
                     /\ IF i \notin DOMAIN instances
                        THEN NoneCompleted(new) /\ ~new.completed
                        ELSE \A sid \in current :
                                IF sid \in SubtaskIdsOf(instances[i])
                                THEN EntriesFor(new, sid) = EntriesFor(instances[i], sid)
                                ELSE \A e \in EntriesFor(new, sid) : ~e.completed]_vars

\* a read found an instance that held a completed entry and the entry of a
\* subtask deleted since, and lacked a subtask added since
C7_Witness ==
    /\ resp.op = ReadDayOp /\ resp.status = 200
    /\ \E i \in DOMAIN instances :
          /\ instances[i].userId = resp.user
          /\ Len(instances[i].subtaskInstances) = 2
          /\ instances[i].subtaskInstances[1].completed
          /\ instances[i].subtaskInstances[1].subtaskId = 2
          /\ ~instances[i].subtaskInstances[2].completed
          /\ instances[i].subtaskInstances[2].subtaskId = 3

\* C8: after a successful DELETE /subtasks/:id no instance of the parent task
\* holds an entry for the deleted subtask, and the subtask is gone from the
\* parent task's list and from the subtask store.
C8_DeletedSubtaskLeavesNoEntry ==
    [][(resp'.op = DeleteSubtaskOp /\ resp'.status = 200)
        => /\ \A i \in DOMAIN instances' :
                 instances'[i].taskId = resp'.a => resp'.id \notin SubtaskIdsOf(instances'[i])
           /\ resp'.id \notin Range(tasks'[resp'.a].subtasks)
           /\ resp'.id \notin DOMAIN subtasks']_vars

RegisterOp == "POST /auth/register"
DeleteWhitelistOp == "DELETE /admin/whitelist/:id"

\* the request just answered was a registration under an address that is not
\* the bootstrap address and had no whitelist entry
UnlistedRegistration ==
    /\ resp'.op = RegisterOp
    /\ resp'.s # BootstrapEmail
    /\ findWhitelistByEmail(whitelist, resp'.s) = {}

\* C9 as stated: a registration under an address without a whitelist entry
\* that is not the bootstrap address is answered 403 and leaves the user store
\* as it was.
C9_UnlistedRegistrationIs403 ==
    [][UnlistedRegistration => (resp'.status = 403 /\ users' = users)]_vars

\* C9: a registration under an address without a whitelist entry that is not
\* the bootstrap address leaves the user store as it was; it is answered 403
\* when no user holds the address and 400 when a user holds it.
C9_UnlistedRegistrationRejected ==
    [][UnlistedRegistration
        => /\ users' = users
           /\ resp'.status = IF findUserByEmail(users, resp'.s) = {} THEN 403 ELSE 400]_vars

\* an unlisted address was refused while other users exist
C9_Witness ==
    /\ resp.op = RegisterOp /\ resp.status = 403
    /\ resp.s # BootstrapEmail
    /\ findWhitelistByEmail(whitelist, resp.s) = {}
    /\ findUserByEmail(users, resp.s) = {}
    /\ users # << >>

\* C10: across every step a whitelist entry that is used stays in the store,
\* used and under its address; an administrator's request to delete it is
\* answered 400; and a registration under its address is answered 400 and
\* creates no user.
C10_UsedEntryIsPermanent ==
    [][\A w \in DOMAIN whitelist :
          whitelist[w].isUsed
          => /\ w \in DOMAIN whitelist'
             /\ whitelist'[w].isUsed
             /\ whitelist'[w].email = whitelist[w].email
             /\ (resp'.op = DeleteWhitelistOp /\ resp'.id = w /\ users[resp'.user].isAdmin)
                => resp'.status = 400
             /\ (resp'.op = RegisterOp /\ resp'.s = whitelist[w].email)
                => (resp'.status = 400 /\ users' = users)]_vars

\* a registration was refused under the address of a used entry whose user
\* had been deleted
C10_Witness ==
    /\ resp.op = RegisterOp /\ resp.status = 400
    /\ findUserByEmail(users, resp.s) = {}
    /\ \E w \in DOMAIN whitelist : whitelist[w].isUsed /\ whitelist[w].email = resp.s

\* the request just answered was a registration under the address of a
\* whitelist entry that an earlier registration had consumed
RepeatedRegistration ==
    /\ resp'.op = RegisterOp
    /\ \E w \in DOMAIN whitelist :
          whitelist[w].email = resp'.s /\ whitelist[w].isUsed /\ whitelist[w].usedBy # 0

\* C11 as stated: a registration under an address whose whitelist entry was
\* consumed by an earlier registration fails with the 'already used' message.
C11_RepeatedRegistrationIsAlreadyUsed ==
    [][RepeatedRegistration
        => (resp'.status = 400 /\ resp'.b = MsgAlreadyUsed)]_vars

\* C11: a registration under an address whose whitelist entry was consumed by
\* an earlier registration is answered 400 and creates no user; the message
\* is 'User already exists' while the registered user exists and 'already
\* used' once that user has been deleted.
C11_RepeatedRegistrationFails ==
    [][RepeatedRegistration
        => /\ resp'.status = 400
           /\ users' = users
           /\ resp'.b = IF findUserByEmail(users, resp'.s) # {}
                        THEN MsgUserExists ELSE MsgAlreadyUsed]_vars

\* the second registration was refused while the first registrant exists
C11_Witness ==
    /\ resp.op = RegisterOp /\ resp.status = 400 /\ resp.b = MsgUserExists
    /\ \E w \in DOMAIN whitelist :
          /\ whitelist[w].email = resp.s /\ whitelist[w].isUsed
          /\ whitelist[w].usedBy \in DOMAIN users
          /\ users[whitelist[w].usedBy].email = resp.s

UpdateTaskOp == "PUT /tasks/:id"
UpdateSubtaskOp == "PUT /subtasks/:id"

\* C12: a PUT /tasks/:id that carries completed = v leaves the task and every
\* subtask of the task with the flag v, and changes no task instance, no
\* subtask of another task, and not the set of subtasks.
C12_TaskCompletedCascadesToSubtasks ==
    [][(resp'.op = UpdateTaskOp /\ resp'.status = 200 /\ resp'.s # "")
        => LET v == (resp'.s = "true")
               id == resp'.id
           IN  /\ tasks'[id].completed = v
               /\ DOMAIN subtasks' = DOMAIN subtasks
               /\ \A k \in 1 .. Len(tasks'[id].subtasks) :
                     subtasks'[tasks'[id].subtasks[k]].completed = v
               /\ \A s \in DOMAIN subtasks :
                     IF subtasks[s].taskId = id
                     THEN subtasks'[s] = [subtasks[s] EXCEPT !.completed = v]
                     ELSE subtasks'[s] = subtasks[s]
               /\ instances' = instances]_vars

\* a task with a subtask was set completed while another task keeps an
\* incomplete subtask and an instance with an entry exists
C12_Witness ==
    /\ resp.op = UpdateTaskOp /\ resp.status = 200 /\ resp.s = "true"
    /\ \E s \in DOMAIN subtasks : subtasks[s].taskId = resp.id /\ subtasks[s].completed
    /\ \E s \in DOMAIN subtasks : subtasks[s].taskId # resp.id /\ ~subtasks[s].completed
    /\ \E i \in DOMAIN instances : Len(instances[i].subtaskInstances) > 0

\* C13: after a successful PUT /subtasks/:id that carries completed, when
\* the parent task has a subtask, the parent is completed if all its subtasks
\* are now completed, is incomplete if some subtask is incomplete and it was
\* completed, and otherwise keeps its flag.
C13_SubtaskEditReevaluatesParent ==
    [][(resp'.op = UpdateSubtaskOp /\ resp'.status = 200
        /\ Len(tasks'[resp'.a].subtasks) > 0)
        => LET taskId == resp'.a
               list == tasks'[taskId].subtasks
               allCompleted == \A k \in 1 .. Len(list) : subtasks'[list[k]].completed
           IN  tasks'[taskId].completed =
                  IF allCompleted THEN TRUE
                  ELSE IF tasks[taskId].completed THEN FALSE
                  ELSE tasks[taskId].completed]_vars

\* C14: in every reachable state, those reached by two interleaved issue
\* requests included, every email has at most one unused reset code.
C14_AtMostOneUnusedCodePerEmail ==
    \A email \in ResetEmails : Cardinality(unusedCodes(resetCodes, email)) <= 1

ResetPasswordOp == "POST /auth/reset-password"
VerifyResetCodeOp == "POST /auth/verify-reset-code"

\* a user holds the email, the email has a whitelist entry, and a reset code
\* with that code and email is unused and unexpired
ResetAllowed(email, code) ==
    /\ \E u \in DOMAIN users : users[u].email = email
    /\ \E w \in DOMAIN whitelist : whitelist[w].email = email
    /\ \E r \in DOMAIN resetCodes :
          /\ resetCodes[r].code = code /\ resetCodes[r].email = email
          /\ ~resetCodes[r].isUsed /\ ~resetCodes[r].expired

\* C15: a password changes only in a reset-password step made when a user
\* holds the email, the email is whitelisted and the code is unused and
\* unexpired, and only for that user; verify-reset-code answers valid under
\* exactly these conditions and writes nothing; a successful reset marks the
\* code used, so that no unused code with that value and email is left.
C15_ResetNeedsLiveCode ==
    [][/\ \A u \in DOMAIN users \cap DOMAIN users' :
             users'[u].password # users[u].password
             => /\ resp'.op = ResetPasswordOp /\ resp'.status = 200
                /\ users[u].email = resp'.s
                /\ ResetAllowed(resp'.s, resp'.a)
       /\ resp'.op = ResetPasswordOp
          => /\ resp'.status = 200 <=> ResetAllowed(resp'.s, resp'.a)
             /\ resp'.status # 200 => (users' = users /\ resetCodes' = resetCodes)
             /\ resp'.status = 200
                => /\ resetCodes'[resp'.id].isUsed
                   /\ resetCodes'[resp'.id].code = resp'.a
                   /\ resetCodes'[resp'.id].email = resp'.s
                   /\ \A r \in DOMAIN resetCodes' :
                         (resetCodes'[r].code = resp'.a /\ resetCodes'[r].email = resp'.s)
                         => resetCodes'[r].isUsed
       /\ resp'.op = VerifyResetCodeOp
          => /\ resp'.status = 200 <=> ResetAllowed(resp'.s, resp'.a)
             /\ users' = users /\ resetCodes' = resetCodes]_vars

\* a verification was refused for a code that an earlier reset has used up
C15_Witness ==
    /\ resp.op = VerifyResetCodeOp /\ resp.status = 400
    /\ \E r \in DOMAIN resetCodes :
          /\ resetCodes[r].code = resp.a /\ resetCodes[r].email = resp.s
          /\ resetCodes[r].isUsed /\ ~resetCodes[r].expired
    /\ \E u \in DOMAIN users :
          users[u].email = resp.s /\ users[u].password # hashed(RegisterPassword)

\* the guard accepts the token: it is present, properly signed for this
\* issuer and audience, of type access, not expired, and names a user that exists
Accepted(token) ==
    /\ token.signature = "valid" /\ ~token.expired
    /\ token.iss = "todo-app" /\ token.aud = "todo-users" /\ token.type = "access"
    /\ token.userId \in DOMAIN users

StoresUnchanged ==
    /\ users' = users /\ whitelist' = whitelist /\ tasks' = tasks
    /\ subtasks' = subtasks /\ instances' = instances /\ resetCodes' = resetCodes

\* C16: a request to a task, subtask, task-instance or admin route whose token
\* the guard does not accept is answered 401 and touches no store; a request
\* to an admin route by an accepted user without the admin flag is answered
\* 403 and touches no store; and a handler that runs, runs for the user the
\* token names.
C16_HandlersRunBehindTheGuards ==
    [][resp'.op \in UserRoutes \cup AdminRoutes
        => LET token == inflight[1].token IN
           /\ ~Accepted(token) => (resp'.status = 401 /\ StoresUnchanged)
           /\ (Accepted(token) /\ resp'.op \in AdminRoutes /\ ~users[token.userId].isAdmin)
              => (resp'.status = 403 /\ StoresUnchanged)
           /\ (resp'.status \notin {401, 403} \/ ~StoresUnchanged)
              => (Accepted(token) /\ resp'.user = token.userId)]_vars

\* the properly signed token of a user that an administrator has deleted was
\* refused while the stores hold a task
C16_Witness ==
    /\ resp.op \in UserRoutes /\ resp.status = 401
    /\ inflight[1].token = generateToken(2)
    /\ 2 \notin DOMAIN users
    /\ tasks # << >>

DeleteUserOp == "DELETE /admin/users/:id"

\* C17: after a successful DELETE /admin/users/:id for user U the stores hold
\* no record of U, no task owned by U, no subtask of a task that U owned, and
\* no task instance of U.
C17_DeletedUserLeavesNoData ==
    [][(resp'.op = DeleteUserOp /\ resp'.status = 200)
        => LET U == resp'.id IN
           /\ U \notin DOMAIN users'
           /\ \A t \in DOMAIN tasks' : tasks'[t].userId # U
           /\ \A x \in DOMAIN subtasks' :
                 ~(subtasks'[x].taskId \in DOMAIN tasks /\ tasks[subtasks'[x].taskId].userId = U)
           /\ \A i \in DOMAIN instances' : instances'[i].userId # U]_vars

DateQueryOps == {"GET /tasks/date/:date", "GET /tasks/today"}

\* a static task: both dates absent
IsStatic(T, t) == T[t].startDate = Null /\ T[t].endDate = Null

\* C18: a static task is in the answer of no date query (GET /tasks/date/:date,
\* GET /tasks/today), GET /task-instances/date/:date creates no instance for
\* it, and no stored instance belongs to a static task.
C18_StaticTaskInNoDateQuery ==
    [][/\ resp'.op \in DateQueryOps
            => \A k \in 1 .. Len(resp'.tasks) : ~IsStatic(tasks', resp'.tasks[k])
       /\ \A i \in DOMAIN instances' :
             instances'[i].taskId \in DOMAIN tasks' => ~IsStatic(tasks', instances'[i].taskId)]_vars

\* a date query answered with a task while its user owns a static task and
\* instances exist
C18_Witness ==
    /\ resp.op \in DateQueryOps
    /\ Len(resp.tasks) > 0
    /\ \E t \in DOMAIN tasks : tasks[t].userId = resp.user /\ IsStatic(tasks, t)
    /\ DOMAIN instances # {}

\* the order values of the sibling group of task id
GroupOrders(T, u, id) == {T[t].order : t \in GroupOf(T, u, id)}

\* C19: after every successful reorder request the order values of the
\* sibling group (N tasks) are exactly 1..N: a group whose values were not a
\* permutation of 1..N (a duplicate, a gap, a non-positive value) was
\* renumbered before the swap.
C19_ReorderLeavesDenseOrders ==
    [][(resp'.op = ReorderOp /\ resp'.status = 200)
        => GroupOrders(tasks', resp'.user, resp'.id)
             = 1 .. Cardinality(GroupOf(tasks', resp'.user, resp'.id))]_vars

\* the tasks of S carry pairwise distinct order values
DistinctOrders(T, S) == \A x \in S, y \in S : x # y => T[x].order # T[y].order

\* C20: after any sequence of task creations (user or admin route) and reorder
\* requests, no two tasks of one ordering group carry the same order value;
\* the groups are the static tasks of an owner and, for each day, the
\* date-ranged tasks of an owner that are active on that day.
C20_NoDuplicateOrderInGroup ==
    \A u \in DOMAIN users :
        /\ DistinctOrders(tasks, staticTasksQuery(tasks, u))
        /\ \A D \in Days : DistinctOrders(tasks, findTasksForDateQuery(tasks, u, Midnight(D)))

\* C21: a reorder request refused because the task is already first (up) or
\* already last (down) in its group of two or more tasks changes the order
\* value of no task.
C21_RefusedReorderIsNoOp ==
    [][(/\ resp'.op = ReorderOp /\ resp'.status = 400
        /\ resp'.id \in DOMAIN tasks
        /\ Cardinality(GroupOf(tasks, resp'.user, resp'.id)) >= 2)
        => \A t \in DOMAIN tasks : tasks'[t].order = tasks[t].order]_vars

\* a reorder request that ran alone, from its first read to its answer, and
\* was answered with status (answers of the interleaved handlers carry the
\* number of their process in resp.b)
RanAlone(r, status) == r.op = ReorderOp /\ r.b = 0 /\ r.status = status

\* the group holds two tasks with one order value, or a non-positive value
DuplicateOrNonPositive(T, group) ==
    \/ \E x \in group : T[x].order <= 0
    \/ ~DistinctOrders(T, group)

\* C22: interleaved reorder requests can leave a sibling group with order
\* values that are not a permutation of 1..N (the witness: a duplicate is
\* there when no request is being served); a reorder request that then runs
\* alone on a group with a duplicate or a non-positive value leaves the group
\* with the order values 1..N.
C22_ReorderAloneRepairsTheRace ==
    [][(/\ AllIdle
        /\ (RanAlone(resp', 200) \/ RanAlone(resp', 400))
        /\ Len(siblingGroup(tasks, resp'.user, resp'.id)) >= 2
        /\ DuplicateOrNonPositive(tasks, GroupOf(tasks, resp'.user, resp'.id)))
        => GroupOrders(tasks', resp'.user, resp'.id)
             = 1 .. Cardinality(GroupOf(tasks', resp'.user, resp'.id))]_vars

\* a request that ran alone has renumbered a group: only the interleaved
\* requests before it can have left the duplicate it found
C22_Witness ==
    /\ AllIdle
    /\ RanAlone(resp, 200)
    /\ resp.a = 1

\* C23: there is at most one task instance for a task, a user and a calendar
\* day, also when two reads of the day (user route or admin route) interleave
\* between their lookup and their insert.
C23_OneInstancePerTaskUserDay ==
    \A i \in DOMAIN instances, j \in DOMAIN instances :
        (/\ instances[i].taskId = instances[j].taskId
         /\ instances[i].userId = instances[j].userId
         /\ StartOfDay(instances[i].date) = StartOfDay(instances[j].date)) => i = j

\* the insert of a read was refused: another read had inserted the instance
\* of the triple after the lookup of this one
C23_Witness ==
    /\ resp.s = "E11000"
    /\ \E i \in DOMAIN instances :
          /\ instances[i].userId = resp.id
          /\ instances[i].date = resp.a

ToggleOps == {ToggleInstanceOp, ToggleSubtaskOp}

\* C24: a toggle of a task instance or of a subtask instance writes no Task
\* and no Subtask record and no other task instance: the tasks, the subtasks
\* and every other instance are the same after the request.
C24_TogglesWriteOneInstanceOnly ==
    [][resp'.op \in ToggleOps
        => /\ tasks' = tasks
           /\ subtasks' = subtasks
           /\ DOMAIN instances' = DOMAIN instances
           /\ \A i \in DOMAIN instances \ {resp'.id} : instances'[i] = instances[i]]_vars

\* a successful toggle of an instance that has entries, while its task has
\* subtasks and another instance exists
C24_Witness ==
    /\ resp.op \in ToggleOps /\ resp.status = 200
    /\ Len(instances[resp.id].subtaskInstances) > 0
    /\ instances[resp.id].completed
    /\ DOMAIN subtasks # {}
    /\ DOMAIN instances \ {resp.id} # {}

CreateSubtaskOp == "POST /tasks/:taskId/subtasks"

\* the step added a subtask to a task (resp'.id) or removed one from a task
\* (resp'.a), and task is that task
SubtaskAddedTo(task) == resp'.op = CreateSubtaskOp /\ resp'.status = 201 /\ resp'.id = task
SubtaskRemovedFrom(task) == resp'.op = DeleteSubtaskOp /\ resp'.status = 200 /\ resp'.a = task

\* C25 as stated: when a subtask is added to or removed from a task, every
\* instance of the task created earlier keeps its entries (until the next
\* read of the task for the day of the instance).
C25_InstancesLagUntilNextRead ==
    [][\A i \in DOMAIN instances :
          (SubtaskAddedTo(instances[i].taskId) \/ SubtaskRemovedFrom(instances[i].taskId))
             => instances'[i].subtaskInstances = instances[i].subtaskInstances]_vars

\* C25, amended: the request that adds a subtask appends an incomplete entry
\* for it to every instance of the task that belongs to the requesting user,
\* and the request that removes a subtask removes its entry from every such
\* instance, at once and without a read; the other entries stay as they were.
C25_SubtaskRequestsUpdateInstancesAtOnce ==
    [][\A i \in DOMAIN instances :
          instances[i].userId = resp'.user =>
             /\ SubtaskAddedTo(instances[i].taskId)
                   => instances'[i].subtaskInstances
                        = Append(instances[i].subtaskInstances,
                                 [subtaskId |-> resp'.a, completed |-> FALSE])
             /\ SubtaskRemovedFrom(instances[i].taskId)
                   => instances'[i].subtaskInstances
                        = SelectSeq(instances[i].subtaskInstances,
                                    LAMBDA si : si.subtaskId # resp'.id)]_vars

\* a subtask was added to a task of which two instances exist, one of them
\* with a completed entry, and both hold an entry for the new subtask
C25_Witness ==
    /\ resp.op = CreateSubtaskOp /\ resp.status = 201
    /\ Cardinality({i \in DOMAIN instances :
                       /\ instances[i].taskId = resp.id
                       /\ resp.a \in SubtaskIdsOf(instances[i])}) >= 2
    /\ \E i \in DOMAIN instances :
          instances[i].taskId = resp.id /\ instances[i].subtaskInstances[1].completed

DeleteTaskOp == "DELETE /tasks/:id"

\* C26: after a successful DELETE /tasks/:id the task is gone, every subtask
\* whose parent is that task is gone, and no task instance references the
\* task.
C26_DeletedTaskLeavesNothing ==
    [][(resp'.op = DeleteTaskOp /\ resp'.status = 200)
        => /\ resp'.id \notin DOMAIN tasks'
           /\ \A x \in DOMAIN subtasks' : subtasks'[x].taskId # resp'.id
           /\ \A i \in DOMAIN instances' : instances'[i].taskId # resp'.id]_vars

\* the PUT, POST and DELETE routes of the task, subtask and task-instance routers
StateChangingOps ==
    {"POST /tasks", "PUT /tasks/:id", "DELETE /tasks/:id", "PUT /tasks/:id/order",
     "POST /tasks/:taskId/subtasks", "PUT /subtasks/:id", "DELETE /subtasks/:id",
     "PUT /task-instances/:id/complete", "PUT /task-instances/:id/subtask/:subtaskId"}

OwnedBy(T, V) == {t \in DOMAIN T : T[t].userId = V}

\* what user V owns: the tasks of V, the subtasks of these tasks and the task
\* instances of V
OwnedState(T, S, I, V) ==
    <<[t \in OwnedBy(T, V) |-> T[t]],
      [x \in {y \in DOMAIN S : S[y].taskId \in OwnedBy(T, V)} |-> S[x]],
      [i \in {j \in DOMAIN I : I[j].userId = V} |-> I[i]]>>

\* C27: a request of a non-admin user U on a state-changing route of the task,
\* subtask and task-instance routers changes nothing that another user V owns:
\* the tasks of V (as a set and each of them), the subtasks of these tasks and
\* the task instances of V are the same after the request.
C27_UserChangesOwnStateOnly ==
    [][(/\ resp'.op \in StateChangingOps
        /\ resp'.user \in DOMAIN users
        /\ ~users[resp'.user].isAdmin)
        => \A V \in DOMAIN users \ {resp'.user} :
              OwnedState(tasks', subtasks', instances', V)
                 = OwnedState(tasks, subtasks, instances, V)]_vars

\* C28: a task instance that has at least one subtask-instance entry is
\* completed if and only if all of its entries are completed.
C28_InstanceCompletedIffAllEntries ==
    \A i \in DOMAIN instances :
        Len(instances[i].subtaskInstances) > 0
           => (instances[i].completed <=> AllCompleted(instances[i]))

\* C29: no task instance holds two subtask-instance entries for one subtask,
\* also when a subtask creation interleaves with a read that reconciles the
\* same instance.
C29_NoDuplicateEntryInInstance ==
    \A i \in DOMAIN instances :
        Cardinality(SubtaskIdsOf(instances[i])) = Len(instances[i].subtaskInstances)

\* C30: each reset code yields at most one successful password reset, also
\* when two reset requests with the same email and code interleave: a reset
\* that succeeds finds its code unused by any earlier reset (a code is marked
\* used by a successful reset only, in the step that answers it).
C30_OneResetPerCode ==
    [][(resp'.op = ResetPasswordOp /\ resp'.status = 200)
        => ~resetCodes[resp'.id].isUsed]_vars

====
